---- MODULE Spec2Model ----
(***************************************************************************)
(* Job pipeline of the video summarizer: the HTTP handlers of the express  *)
(* application (src/src/ai/transcriptionService.js, lines 235-1264), the   *)
(* per-day JSON-lines job log of FileManager (src/src/utils/fileManager.js)*)
(* and the files the stages write.                                         *)
(*                                                                         *)
(* Node runs one handler at a time between two awaits, so every action is  *)
(* the code of one handler from one await to the next.  A request that is  *)
(* waiting for an external collaborator (ffmpeg, Whisper, Gemini) occupies *)
(* a slot of reqs; the collaborator's outcome is chosen when it resumes.   *)
(* Writes to the log file are assumed to succeed (appendFileSync does not  *)
(* throw).  started counts the requests that begin work and bounds them.   *)
(* A request that is answered by its checks alone (404, 400) and the GET   *)
(* requests change no state: their answers are the operators ...Check and  *)
(* Get..., evaluated in the current state.                                 *)
(***************************************************************************)
EXTENDS Integers, Sequences, FiniteSets, TLC

\* ------------------------------------------------------------------ bounds
MaxClock == 2        \* Date.now() takes the values 0..MaxClock
TicksPerDay == 2     \* clock values per calendar day (one log file per day)
MaxRequests == 3     \* requests that get past their checks and start work
MaxInflight == 1     \* requests that may wait for a collaborator at once
MaxUpload == 1       \* files in uploads/ that extract-audio can name
MaxMoments == 1      \* key moments in one analysis
MaxSegments == 3     \* segments in one transcript
MaxReported == 2     \* moments in one answer of the moment-detection service
MaxListed == 3       \* moments in one call of filterMoments
MaxLimit == 3        \* the largest maxMoments a caller passes
MaxPlanned == 3      \* segments in one call of generateCompositionPlan
MaxComposed == 3     \* segments in one call of getCompositionStats
MaxClips == 2        \* clips, and thumbnails, that a job has left behind
MaxCleanups == 3     \* calls of cleanupJob in a row
MaxSummarized == 2   \* moments in one call of createVideoSummary
MaxQuick == 8        \* moments in one call of createQuickSummary

VARIABLES
  now,        \* Date.now()
  logFiles,   \* logs/processing-<day>.log : day -> sequence of events
  files,      \* the files that exist: path -> mtime
  reqs,       \* slot -> the request waiting there, or Idle
  started,    \* requests that have started work so far
  resp,       \* the HTTP response sent by the last step, or NoResp
  call        \* a call of one of the processors' functions: arguments and result

vars == <<now, logFiles, files, reqs, started, resp, call>>

\* the slots in which requests wait: as many as may wait at once
Slots == DOMAIN reqs
Days == 0..(MaxClock \div TicksPerDay)
JobIds == 0..MaxClock
Uploads == 1..MaxUpload

\* ------------------------------------------------------------------ paths
NoFile == <<"", "", 0, 0>>
UploadPath(n) == <<"uploads", "video", n, 0>>
ProcPath(k) == <<"temp", "proc", k, 0>>
AudioPath(src, t) == <<"temp", IF src[2] = "proc" THEN "audio_p" ELSE "audio_u", src[3], t>>
ConcatPath(jobId) == <<"temp", "concat", jobId, 0>>
SegmentPath(jobId, i) == <<"segments", "clip", jobId, i>>
OutputPath(jobId) == <<"output", "summary", jobId, 0>>

PreviewPath(jobId) == <<"output", "preview", jobId, 0>>

\* the modification time kept for a file written at t: only the files of
\* temp/ have theirs read (cleanupTempFiles)
Mtime(p, t) == IF p[1] = "temp" THEN t ELSE 0

Exists(f, p) == p \in DOMAIN f
WriteFiles(f, P, t) == [q \in DOMAIN f \cup P |-> IF q \in P THEN Mtime(q, t) ELSE f[q]]
WriteFile(f, p, t) == WriteFiles(f, {p}, t)
RemoveFiles(f, P) == [q \in DOMAIN f \ P |-> f[q]]

\* -------------------------------------------------------------------- log
NoDetails == [file |-> NoFile, result |-> 0, provider |-> "", error |-> ""]
NoEvent == [timestamp |-> 0, jobId |-> 0, activity |-> "", details |-> NoDetails]

DayOf(t) == t \div TicksPerDay

\* FileManager.logActivity: one line appended to the file of the current day;
\* of the ISO timestamp the model keeps the date
logActivity(lf, t, jobId, activity, details) ==
  [lf EXCEPT ![DayOf(t)] = Append(@, [timestamp |-> DayOf(t), jobId |-> jobId,
                                       activity |-> activity, details |-> details])]

\* the lines getJobLogs reads: the file of the current day
LogFileRead(lf, t) == lf[DayOf(t)]

\* FileManager.getJobLogs
getJobLogs(lf, t, jobId) == SelectSeq(LogFileRead(lf, t), LAMBDA e : e.jobId = jobId)

\* the index Array.prototype.find stops at, among the matching indexes
FoundIndex(S) == CHOOSE i \in S : \A k \in S : i <= k

\* logs.find(log => log.activity is one of acts), NoEvent for undefined
find(logs, acts) ==
  LET S == {i \in 1..Len(logs) : logs[i].activity \in acts}
  IN IF S = {} THEN NoEvent ELSE logs[FoundIndex(S)]

RECURSIVE Concat(_, _)
Concat(lf, d) == IF d < 0 THEN <<>> ELSE Concat(lf, d - 1) \o lf[d]

\* every event ever appended, in append order
AllEvents == Concat(logFiles, MaxClock \div TicksPerDay)
JobEvents(jobId) == SelectSeq(AllEvents, LAMBDA e : e.jobId = jobId)

\* --------------------------------------------------------------- requests
Idle == [op |-> "idle", pc |-> "idle", jobId |-> 0, file |-> NoFile, file2 |-> NoFile, arg |-> 0]
NoResp == [op |-> "none", jobId |-> 0, status |-> 0, result |-> 0, provider |-> ""]
Response(op, jobId, status) == [NoResp EXCEPT !.op = op, !.jobId = jobId, !.status = status]

FreeSlots == {s \in Slots : reqs[s] = Idle}
FreeSlot == CHOOSE s \in FreeSlots : \A k \in FreeSlots : s <= k
CanStart == FreeSlots # {} /\ started < MaxRequests

\* a handler reaches its first await: the request waits in the lowest free slot
Await(r) ==
  /\ CanStart
  /\ reqs' = [reqs EXCEPT ![FreeSlot] = r]
  /\ started' = started + 1
  /\ resp' = NoResp
  /\ UNCHANGED call

\* a request goes on to its next await
Continue(s, r) ==
  /\ reqs' = [reqs EXCEPT ![s] = r]
  /\ resp' = NoResp
  /\ UNCHANGED <<started, call>>

\* a handler sends its response after an await and ends
Reply(s, r) ==
  /\ reqs' = [reqs EXCEPT ![s] = Idle]
  /\ resp' = r
  /\ UNCHANGED <<started, call>>

\* no function call is under examination while the server runs
NoCall == [fn |-> "none"]

Init ==
  /\ now = 0
  /\ logFiles = [d \in Days |-> <<>>]
  /\ files = [p \in {} |-> 0]
  /\ reqs = [s \in 1..MaxInflight |-> Idle]
  /\ started = 0
  /\ resp = NoResp
  /\ call = NoCall

\* time passes
Tick ==
  /\ now < MaxClock
  /\ now' = now + 1
  /\ resp' = NoResp
  /\ UNCHANGED <<logFiles, files, reqs, started, call>>

\* POST /upload: multer stores the file in uploads/
Upload(n) ==
  /\ ~Exists(files, UploadPath(n))
  /\ files' = WriteFile(files, UploadPath(n), now)
  /\ resp' = NoResp
  /\ UNCHANGED <<now, logFiles, reqs, started, call>>

\* ---------------------------------------------------------- extract-audio
\* The status POST /extract-audio/:filename answers with before any work
\* (0: it goes on)
ExtractAudioCheck(n) == IF ~Exists(files, UploadPath(n)) THEN 404 ELSE 0

\* POST /extract-audio/:filename, up to the await of extractAudio
ExtractAudioStart(n) ==
  /\ ExtractAudioCheck(n) = 0
  /\ logFiles' = logActivity(logFiles, now, now, "audio_extraction_started",
                             [NoDetails EXCEPT !.file = UploadPath(n)])
  /\ Await([Idle EXCEPT !.op = "extract-audio", !.pc = "audio", !.jobId = now,
                        !.file = UploadPath(n), !.file2 = AudioPath(UploadPath(n), now)])
  /\ UNCHANGED <<now, files>>

\* extractAudio and validateAudioForTranscription have returned or thrown:
\* "error" is a failed extraction (performExtraction removes the partial file),
\* "invalid" a written audio file that ffprobe rejects
ExtractAudioDone(s) ==
  /\ reqs[s].op = "extract-audio"
  /\ \E outcome \in {"ok", "invalid", "error"} :
       /\ outcome # "error" => Exists(files, reqs[s].file)
       /\ files' = IF outcome = "error"
                   THEN RemoveFiles(files, {reqs[s].file2})
                   ELSE WriteFile(files, reqs[s].file2, now)
       /\ IF outcome = "ok"
          THEN /\ logFiles' = logActivity(logFiles, now, reqs[s].jobId, "audio_extraction_completed",
                                          [NoDetails EXCEPT !.file = reqs[s].file2])
               /\ Reply(s, Response("extract-audio", reqs[s].jobId, 200))
          ELSE /\ logFiles' = logFiles
               /\ Reply(s, Response("extract-audio", reqs[s].jobId, 500))
  /\ UNCHANGED now

\* ------------------------------------------------------------- transcribe
\* the prerequisite of POST /transcribe/:jobId, as the handler resolves it
TranscribePrereq(logs) == find(logs, {"audio_extraction_completed"}) # NoEvent

\* the audio file POST /transcribe/:jobId resolves
TranscribeInput(jobId) ==
  find(getJobLogs(logFiles, now, jobId), {"audio_extraction_completed"}).details.file

\* variant of TranscribeCheck: a job with a transcription_failed event is
\* refused
TranscribeCheckFailedIsTerminal(jobId) ==
  LET logs == getJobLogs(logFiles, now, jobId)
  IN IF find(logs, {"transcription_failed"}) # NoEvent THEN 409
     ELSE IF ~TranscribePrereq(logs) THEN 404
     ELSE IF TranscribeInput(jobId) = NoFile \/ ~Exists(files, TranscribeInput(jobId)) THEN 404
     ELSE 0

\* variant of TranscribeCheck: a job that has a transcription in progress is
\* refused
TranscribeCheckExclusive(jobId) ==
  LET logs == getJobLogs(logFiles, now, jobId)
  IN IF \E s \in Slots : reqs[s].op = "transcribe" /\ reqs[s].jobId = jobId THEN 409
     ELSE IF ~TranscribePrereq(logs) THEN 404
     ELSE IF TranscribeInput(jobId) = NoFile \/ ~Exists(files, TranscribeInput(jobId)) THEN 404
     ELSE 0

\* the status POST /transcribe/:jobId answers with before any work (0: it goes on)
TranscribeCheck(jobId) ==
  IF ~TranscribePrereq(getJobLogs(logFiles, now, jobId)) THEN 404
  ELSE IF TranscribeInput(jobId) = NoFile \/ ~Exists(files, TranscribeInput(jobId)) THEN 404
  ELSE 0

\* POST /transcribe/:jobId, up to the await of transcribeAudio
TranscribeStart(jobId) ==
  /\ TranscribeCheck(jobId) = 0
  /\ logFiles' = logActivity(logFiles, now, jobId, "transcription_started",
                             [NoDetails EXCEPT !.file = TranscribeInput(jobId)])
  /\ Await([Idle EXCEPT !.op = "transcribe", !.pc = "transcribe",
                        !.jobId = jobId, !.file = TranscribeInput(jobId)])
  /\ UNCHANGED <<now, files>>

\* transcribeAudio has returned a transcript or thrown
TranscribeDone(s) ==
  /\ reqs[s].op = "transcribe"
  /\ \E ok \in BOOLEAN :
       IF ok
       THEN /\ logFiles' = logActivity(logFiles, now, reqs[s].jobId, "transcription_completed",
                                       [NoDetails EXCEPT !.result = 1])
            /\ Reply(s, Response("transcribe", reqs[s].jobId, 200))
       ELSE /\ logFiles' = logActivity(logFiles, now, reqs[s].jobId, "transcription_failed",
                                       [NoDetails EXCEPT !.error = "Transcription failed"])
            /\ Reply(s, Response("transcribe", reqs[s].jobId, 500))
  /\ UNCHANGED <<now, files>>

\* -------------------------------------------------------- analyze-moments
\* what MomentAnalyzer.analyzeKeyMoments can return for the transcript the
\* pipeline passes (the output of processTranscriptionForAnalysis, which has
\* no segments and no duration field): a parsed analysis with its valid key
\* moments, the liberal fallback (no moment without segments and duration),
\* or createFallbackAnalysis when the service call throws
AnalysisOutcomes ==
  {[provider |-> "gemini-1.5-pro", result |-> n] : n \in 0..MaxMoments}
    \cup {[provider |-> "liberal-fallback", result |-> 0],
          [provider |-> "fallback", result |-> 0]}

\* analyzeKeyMoments when the video cannot be read: readFileSync throws
\* inside the try block
UnreadableOutcomes == {[provider |-> "fallback", result |-> 0]}

AnalysisDetails(a) == [NoDetails EXCEPT !.result = a.result, !.provider = a.provider]

\* the prerequisites of POST /analyze-moments/:jobId, as the handler resolves them
AnalyzePrereq(logs) ==
  /\ find(logs, {"transcription_completed"}) # NoEvent
  /\ find(logs, {"audio_extraction_completed"}) # NoEvent
  /\ find(logs, {"processing_started"}) # NoEvent

\* the video and the transcript POST /analyze-moments/:jobId resolves
AnalyzeVideo(jobId) ==
  find(getJobLogs(logFiles, now, jobId), {"processing_started"}).details.file
AnalyzeInput(jobId) ==
  find(getJobLogs(logFiles, now, jobId), {"transcription_completed"}).details.result

\* variant of AnalyzeMomentsCheck: the handler goes on whatever the log holds
AnalyzeMomentsUnchecked(jobId) == 0

\* the status POST /analyze-moments/:jobId answers with before any work
AnalyzeMomentsCheck(jobId) ==
  IF ~AnalyzePrereq(getJobLogs(logFiles, now, jobId)) THEN 404
  ELSE IF ~Exists(files, AnalyzeVideo(jobId)) THEN 404
  ELSE 0

\* POST /analyze-moments/:jobId, up to the await of analyzeKeyMoments
AnalyzeMomentsStart(jobId) ==
  /\ AnalyzeMomentsCheck(jobId) = 0
  /\ logFiles' = logActivity(logFiles, now, jobId, "moment_analysis_started",
                             [NoDetails EXCEPT !.file = AnalyzeVideo(jobId)])
  /\ Await([Idle EXCEPT !.op = "analyze-moments", !.pc = "analyze", !.jobId = jobId,
                        !.file = AnalyzeVideo(jobId), !.arg = AnalyzeInput(jobId)])
  /\ UNCHANGED <<now, files>>

\* analyzeKeyMoments has returned: it catches every error of the service call
\* and of the parsing, so the handler's catch block is not reached
AnalyzeMomentsDone(s) ==
  /\ reqs[s].op = "analyze-moments"
  /\ \E a \in AnalysisOutcomes :
       /\ logFiles' = logActivity(logFiles, now, reqs[s].jobId, "moment_analysis_completed",
                                  AnalysisDetails(a))
       /\ Reply(s, [Response("analyze-moments", reqs[s].jobId, 200)
                      EXCEPT !.result = a.result, !.provider = a.provider])
  /\ UNCHANGED <<now, files>>

\* GET /moments/:jobId: the response
GetMoments(jobId) ==
  LET momentLog == find(getJobLogs(logFiles, now, jobId), {"moment_analysis_completed"})
  IN IF momentLog = NoEvent
     THEN Response("moments", jobId, 404)
     ELSE [Response("moments", jobId, 200) EXCEPT !.result = momentLog.details.result,
                                                  !.provider = momentLog.details.provider]

\* ---------------------------------------------------------- summarization
\* the segment clips VideoSegmenter.extractMomentClips writes for m moments
SegmentPaths(jobId, m) == {SegmentPath(jobId, i) : i \in 1..m}

\* createVideoSummary has written m clips and the composed video
\* (createComposedVideo writes temp/concat_<jobId>.txt and removes it)
SummaryWritten(f, jobId, m, t) ==
  RemoveFiles(WriteFiles(f, SegmentPaths(jobId, m) \cup {OutputPath(jobId)}, t),
              {ConcatPath(jobId)})

\* createVideoSummary has failed after m clips: an error of an extraction
\* (partial = FALSE) or of the composition, which removes the concat file
\* and may leave a partial output
SummaryFailed(f, jobId, m, partial, t) ==
  RemoveFiles(WriteFiles(f, SegmentPaths(jobId, m)
                              \cup (IF partial THEN {OutputPath(jobId)} ELSE {}), t),
              {ConcatPath(jobId)})

\* the prerequisites of POST /create-summary and /quick-summary
SummaryPrereq(logs) ==
  /\ find(logs, {"moment_analysis_completed"}) # NoEvent
  /\ find(logs, {"processing_started"}) # NoEvent

\* the video and the number of key moments the two endpoints resolve
SummaryVideo(jobId) ==
  find(getJobLogs(logFiles, now, jobId), {"processing_started"}).details.file
SummaryInput(jobId) ==
  find(getJobLogs(logFiles, now, jobId), {"moment_analysis_completed"}).details.result

\* variant of CreateSummaryCheck: the handler goes on whatever the log holds
CreateSummaryUnchecked(jobId) == 0

\* the status POST /create-summary/:jobId answers with before any work
CreateSummaryCheck(jobId) ==
  IF ~SummaryPrereq(getJobLogs(logFiles, now, jobId)) THEN 404
  ELSE IF ~Exists(files, SummaryVideo(jobId)) THEN 404
  ELSE IF SummaryInput(jobId) = 0 THEN 400
  ELSE 0

\* POST /create-summary/:jobId, up to the await in createVideoSummary
CreateSummaryStart(jobId) ==
  /\ CreateSummaryCheck(jobId) = 0
  /\ logFiles' = logActivity(logFiles, now, jobId, "video_summarization_started",
                             [NoDetails EXCEPT !.result = SummaryInput(jobId)])
  /\ Await([Idle EXCEPT !.op = "create-summary", !.pc = "summarize", !.jobId = jobId,
                        !.file = SummaryVideo(jobId), !.arg = SummaryInput(jobId)])
  /\ UNCHANGED <<now, files>>

\* createVideoSummary has returned a summary of m of the moments, or thrown
\* (invalid moment timing, no moment left by the filter, ffmpeg error)
CreateSummaryDone(s) ==
  /\ reqs[s].op = "create-summary"
  /\ \/ \E m \in 1..reqs[s].arg :
          /\ Exists(files, reqs[s].file)
          /\ files' = SummaryWritten(files, reqs[s].jobId, m, now)
          /\ logFiles' = logActivity(logFiles, now, reqs[s].jobId, "video_summarization_completed",
                                     [NoDetails EXCEPT !.result = m, !.file = OutputPath(reqs[s].jobId)])
          /\ Reply(s, [Response("create-summary", reqs[s].jobId, 200) EXCEPT !.result = m])
     \/ \E m \in 0..reqs[s].arg, partial \in BOOLEAN :
          /\ partial => m > 0
          /\ files' = SummaryFailed(files, reqs[s].jobId, m, partial, now)
          /\ logFiles' = logActivity(logFiles, now, reqs[s].jobId, "video_summarization_failed",
                                     [NoDetails EXCEPT !.error = "Summarization failed"])
          /\ Reply(s, Response("create-summary", reqs[s].jobId, 500))
  /\ UNCHANGED now

\* the status POST /quick-summary/:jobId answers with before any await:
\* validateInputs throws at once for a missing video or an empty moment list
QuickSummaryCheck(jobId) ==
  IF ~SummaryPrereq(getJobLogs(logFiles, now, jobId)) THEN 404
  ELSE IF ~Exists(files, SummaryVideo(jobId)) \/ SummaryInput(jobId) = 0 THEN 500
  ELSE 0

\* POST /quick-summary/:jobId, up to the await in createVideoSummary
QuickSummaryStart(jobId) ==
  /\ QuickSummaryCheck(jobId) = 0
  /\ Await([Idle EXCEPT !.op = "quick-summary", !.pc = "summarize", !.jobId = jobId,
                        !.file = SummaryVideo(jobId), !.arg = SummaryInput(jobId)])
  /\ UNCHANGED <<now, files, logFiles>>

\* createQuickSummary has returned or thrown: the catch block logs nothing
QuickSummaryDone(s) ==
  /\ reqs[s].op = "quick-summary"
  /\ \/ \E m \in 1..reqs[s].arg :
          /\ Exists(files, reqs[s].file)
          /\ files' = SummaryWritten(files, reqs[s].jobId, m, now)
          /\ logFiles' = logActivity(logFiles, now, reqs[s].jobId, "quick_summary_completed",
                                     [NoDetails EXCEPT !.result = m, !.file = OutputPath(reqs[s].jobId)])
          /\ Reply(s, [Response("quick-summary", reqs[s].jobId, 200) EXCEPT !.result = m])
     \/ \E m \in 0..reqs[s].arg, partial \in BOOLEAN :
          /\ partial => m > 0
          /\ files' = SummaryFailed(files, reqs[s].jobId, m, partial, now)
          /\ logFiles' = logFiles
          /\ Reply(s, Response("quick-summary", reqs[s].jobId, 500))
  /\ UNCHANGED now

\* GET /summary/:jobId: the response
GetSummary(jobId) ==
  LET summaryLog == find(getJobLogs(logFiles, now, jobId),
                         {"video_summarization_completed", "quick_summary_completed",
                          "full_pipeline_completed"})
  IN IF summaryLog = NoEvent
     THEN Response("summary", jobId, 404)
     ELSE [Response("summary", jobId, 200) EXCEPT !.result = summaryLog.details.result]

\* GET /logs/:jobId: the logs of the response
GetLogs(jobId) == getJobLogs(logFiles, now, jobId)

\* ----------------------------------------------------------- process-full
\* the pc of a flow once it has called analyzeKeyMoments: the video is read
\* before the service is called, and an unreadable video gives the fallback
AnalyzePc(f, videoPath) == IF Exists(f, videoPath) THEN "analyze" ELSE "fallback"
FlowOutcomes(pc) == IF pc = "analyze" THEN AnalysisOutcomes ELSE UnreadableOutcomes

\* variant of ProcessFullCatch: the catch block leaves tempFiles in place
ProcessFullCatchKeepsFiles(s, f, tempFiles) ==
  /\ files' = f
  /\ logFiles' = logActivity(logFiles, now, reqs[s].jobId, "full_processing_failed",
                             [NoDetails EXCEPT !.error = "Full AI processing failed"])
  /\ Reply(s, Response("process-full", reqs[s].jobId, 500))

\* the catch block of POST /process-full: cleanupFile on each of tempFiles,
\* then the failure event
ProcessFullCatch(s, f, tempFiles) ==
  /\ files' = RemoveFiles(f, tempFiles)
  /\ logFiles' = logActivity(logFiles, now, reqs[s].jobId, "full_processing_failed",
                             [NoDetails EXCEPT !.error = "Full AI processing failed"])
  /\ Reply(s, Response("process-full", reqs[s].jobId, 500))

\* POST /process-full with an uploaded file, up to the await of validateVideo;
\* the processing video gets a name no other file has (timestamp and uuid)
ProcessFullStart ==
  /\ files' = WriteFile(files, ProcPath(started + 1), now)
  /\ logFiles' = logActivity(logFiles, now, now, "processing_started",
                             [NoDetails EXCEPT !.file = ProcPath(started + 1)])
  /\ Await([Idle EXCEPT !.op = "process-full", !.pc = "validate", !.jobId = now,
                        !.file = ProcPath(started + 1)])
  /\ UNCHANGED now

\* steps 1 and 2: validateVideo and getVideoMetadata have returned
ProcessFullValidate(s) ==
  /\ reqs[s].op = "process-full" /\ reqs[s].pc = "validate"
  /\ \/ /\ Exists(files, reqs[s].file)
        /\ logFiles' = logActivity(logFiles, now, reqs[s].jobId, "metadata_extracted", NoDetails)
        /\ Continue(s, [reqs[s] EXCEPT !.pc = "audio", !.file2 = AudioPath(reqs[s].file, now)])
        /\ UNCHANGED files
     \/ ProcessFullCatch(s, files, {reqs[s].file})
  /\ UNCHANGED now

\* step 3: extractAudio and validateAudioForTranscription have returned or thrown
ProcessFullAudio(s) ==
  /\ reqs[s].op = "process-full" /\ reqs[s].pc = "audio"
  /\ \/ /\ Exists(files, reqs[s].file)
        /\ files' = WriteFile(files, reqs[s].file2, now)
        /\ logFiles' = logActivity(logFiles, now, reqs[s].jobId, "audio_extraction_completed",
                                   [NoDetails EXCEPT !.file = reqs[s].file2])
        /\ Continue(s, [reqs[s] EXCEPT !.pc = "transcribe"])
     \/ /\ Exists(files, reqs[s].file)
        /\ ProcessFullCatch(s, WriteFile(files, reqs[s].file2, now), {reqs[s].file, reqs[s].file2})
     \/ ProcessFullCatch(s, RemoveFiles(files, {reqs[s].file2}), {reqs[s].file})
  /\ UNCHANGED now

\* step 4: transcribeAudio has returned or thrown
ProcessFullTranscribe(s) ==
  /\ reqs[s].op = "process-full" /\ reqs[s].pc = "transcribe"
  /\ \/ /\ logFiles' = logActivity(logFiles, now, reqs[s].jobId, "transcription_completed",
                                   [NoDetails EXCEPT !.result = 1])
        /\ Continue(s, [reqs[s] EXCEPT !.pc = AnalyzePc(files, reqs[s].file), !.arg = 1])
        /\ UNCHANGED files
     \/ ProcessFullCatch(s, files, {reqs[s].file, reqs[s].file2})
  /\ UNCHANGED now

\* step 5: analyzeKeyMoments has returned
ProcessFullAnalyze(s) ==
  /\ reqs[s].op = "process-full" /\ reqs[s].pc \in {"analyze", "fallback"}
  /\ \E a \in FlowOutcomes(reqs[s].pc) :
       /\ logFiles' = logActivity(
                        logActivity(logFiles, now, reqs[s].jobId, "moment_analysis_completed",
                                    AnalysisDetails(a)),
                        now, reqs[s].jobId, "full_processing_completed", NoDetails)
       /\ Reply(s, [Response("process-full", reqs[s].jobId, 200)
                      EXCEPT !.result = a.result, !.provider = a.provider])
  /\ UNCHANGED <<now, files>>

\* -------------------------------------------------- process-and-summarize
\* the catch block of POST /process-and-summarize
ProcessAndSummarizeCatch(s, f, tempFiles) ==
  /\ files' = RemoveFiles(f, tempFiles)
  /\ logFiles' = logActivity(logFiles, now, reqs[s].jobId, "full_pipeline_failed",
                             [NoDetails EXCEPT !.error = "Full pipeline failed"])
  /\ Reply(s, Response("process-and-summarize", reqs[s].jobId, 500))

\* POST /process-and-summarize, up to the await of validateVideo
ProcessAndSummarizeStart ==
  /\ files' = WriteFile(files, ProcPath(started + 1), now)
  /\ logFiles' = logActivity(logFiles, now, now, "full_pipeline_started",
                             [NoDetails EXCEPT !.file = ProcPath(started + 1)])
  /\ Await([Idle EXCEPT !.op = "process-and-summarize", !.pc = "validate",
                        !.jobId = now, !.file = ProcPath(started + 1)])
  /\ UNCHANGED now

\* steps 1 and 2: validateVideo and getVideoMetadata have returned
ProcessAndSummarizeValidate(s) ==
  /\ reqs[s].op = "process-and-summarize" /\ reqs[s].pc = "validate"
  /\ \/ /\ Exists(files, reqs[s].file)
        /\ logFiles' = logActivity(logFiles, now, reqs[s].jobId, "metadata_extracted", NoDetails)
        /\ Continue(s, [reqs[s] EXCEPT !.pc = "audio", !.file2 = AudioPath(reqs[s].file, now)])
        /\ UNCHANGED files
     \/ ProcessAndSummarizeCatch(s, files, {reqs[s].file})
  /\ UNCHANGED now

\* step 3: extractAudio has returned or thrown; nothing is logged
ProcessAndSummarizeAudio(s) ==
  /\ reqs[s].op = "process-and-summarize" /\ reqs[s].pc = "audio"
  /\ \/ /\ Exists(files, reqs[s].file)
        /\ files' = WriteFile(files, reqs[s].file2, now)
        /\ Continue(s, [reqs[s] EXCEPT !.pc = "transcribe"])
        /\ UNCHANGED logFiles
     \/ ProcessAndSummarizeCatch(s, RemoveFiles(files, {reqs[s].file2}), {reqs[s].file})
  /\ UNCHANGED now

\* step 4: transcribeAudio has returned or thrown; nothing is logged
ProcessAndSummarizeTranscribe(s) ==
  /\ reqs[s].op = "process-and-summarize" /\ reqs[s].pc = "transcribe"
  /\ \/ /\ Continue(s, [reqs[s] EXCEPT !.pc = AnalyzePc(files, reqs[s].file), !.arg = 1])
        /\ UNCHANGED <<logFiles, files>>
     \/ ProcessAndSummarizeCatch(s, files, {reqs[s].file, reqs[s].file2})
  /\ UNCHANGED now

\* step 5: analyzeKeyMoments has returned; with moments and a video that
\* exists, createVideoSummary starts (step 6)
ProcessAndSummarizeAnalyze(s) ==
  /\ reqs[s].op = "process-and-summarize" /\ reqs[s].pc \in {"analyze", "fallback"}
  /\ \E a \in FlowOutcomes(reqs[s].pc) :
       IF a.result = 0 \/ ~Exists(files, reqs[s].file)
       THEN ProcessAndSummarizeCatch(s, files, {reqs[s].file, reqs[s].file2})
       ELSE /\ Continue(s, [reqs[s] EXCEPT !.pc = "summarize", !.arg = a.result])
            /\ UNCHANGED <<logFiles, files>>
  /\ UNCHANGED now

\* step 6: createVideoSummary has returned or thrown
ProcessAndSummarizeSummarize(s) ==
  /\ reqs[s].op = "process-and-summarize" /\ reqs[s].pc = "summarize"
  /\ \/ \E m \in 1..reqs[s].arg :
          /\ Exists(files, reqs[s].file)
          /\ files' = SummaryWritten(files, reqs[s].jobId, m, now)
          /\ logFiles' = logActivity(logFiles, now, reqs[s].jobId, "full_pipeline_completed",
                                     [NoDetails EXCEPT !.result = m, !.file = OutputPath(reqs[s].jobId)])
          /\ Reply(s, [Response("process-and-summarize", reqs[s].jobId, 200) EXCEPT !.result = m])
     \/ \E m \in 0..reqs[s].arg, partial \in BOOLEAN :
          /\ partial => m > 0
          /\ ProcessAndSummarizeCatch(s, SummaryFailed(files, reqs[s].jobId, m, partial, now),
                                      {reqs[s].file, reqs[s].file2})
  /\ UNCHANGED now

\* ---------------------------------------------------------------- cleanup
\* VideoSummarizer.cleanupJob: the files of segments/<jobId>/ and
\* thumbnails/<jobId>/, the summary and its preview
JobArtifacts(f, jobId) ==
  {p \in DOMAIN f : p[1] \in {"segments", "thumbnails"} /\ p[3] = jobId}
    \cup ({OutputPath(jobId), PreviewPath(jobId)} \cap DOMAIN f)

\* FileManager.cleanupTempFiles: the files of temp/ last modified before cutoff
OldTempFiles(f, cutoff) == {p \in DOMAIN f : p[1] = "temp" /\ f[p] < cutoff}

\* POST /cleanup/:jobId: cleanupJob, cleanupTempFiles(0, jobId), then the event
CleanupJob(jobId) ==
  /\ started < MaxRequests
  /\ started' = started + 1
  /\ LET f1 == RemoveFiles(files, JobArtifacts(files, jobId))
     IN files' = RemoveFiles(f1, OldTempFiles(f1, now))
  /\ logFiles' = logActivity(logFiles, now, jobId, "cleanup_completed", NoDetails)
  /\ resp' = Response("cleanup", jobId, 200)
  /\ UNCHANGED <<now, reqs, call>>

\* POST /cleanup with a maximal age of age clock values
CleanupTemp(age) ==
  /\ files' = RemoveFiles(files, OldTempFiles(files, now - age))
  /\ files' # files
  /\ resp' = NoResp
  /\ UNCHANGED <<now, logFiles, reqs, started, call>>

Next ==
  \/ Tick
  \/ \E n \in Uploads : Upload(n)
  \/ \E n \in Uploads : ExtractAudioStart(n)
  \/ \E s \in Slots : ExtractAudioDone(s)
  \/ \E j \in JobIds : TranscribeStart(j)
  \/ \E s \in Slots : TranscribeDone(s)
  \/ \E j \in JobIds : AnalyzeMomentsStart(j)
  \/ \E s \in Slots : AnalyzeMomentsDone(s)
  \/ \E j \in JobIds : CreateSummaryStart(j)
  \/ \E s \in Slots : CreateSummaryDone(s)
  \/ \E j \in JobIds : QuickSummaryStart(j)
  \/ \E s \in Slots : QuickSummaryDone(s)
  \/ ProcessFullStart
  \/ \E s \in Slots : ProcessFullValidate(s)
  \/ \E s \in Slots : ProcessFullAudio(s)
  \/ \E s \in Slots : ProcessFullTranscribe(s)
  \/ \E s \in Slots : ProcessFullAnalyze(s)
  \/ ProcessAndSummarizeStart
  \/ \E s \in Slots : ProcessAndSummarizeValidate(s)
  \/ \E s \in Slots : ProcessAndSummarizeAudio(s)
  \/ \E s \in Slots : ProcessAndSummarizeTranscribe(s)
  \/ \E s \in Slots : ProcessAndSummarizeAnalyze(s)
  \/ \E s \in Slots : ProcessAndSummarizeSummarize(s)
  \/ \E j \in JobIds : CleanupJob(j)
  \/ \E age \in 1..TicksPerDay : CleanupTemp(age)

Spec == Init /\ [][Next]_vars

\* ------------------------------------------------- two requests at a time
\* One more request may wait than in Spec, and fewer requests are still to
\* start: one on the server as constructed, two on the server after POST
\* /extract-audio for upload 1 has answered 200 for job 0.
ConcurrentInit ==
  /\ now = 0
  /\ reqs = [s \in 1..(MaxInflight + 1) |-> Idle]
  /\ call = NoCall
  /\ \/ /\ files = [p \in {} |-> 0]
        /\ logFiles = [d \in Days |-> <<>>]
        /\ started = MaxRequests - 1
        /\ resp = NoResp
     \/ /\ files = WriteFiles([p \in {} |-> 0],
                              {UploadPath(1), AudioPath(UploadPath(1), 0)}, 0)
        /\ logFiles =
             logActivity(
               logActivity([d \in Days |-> <<>>], 0, 0, "audio_extraction_started",
                           [NoDetails EXCEPT !.file = UploadPath(1)]),
               0, 0, "audio_extraction_completed",
               [NoDetails EXCEPT !.file = AudioPath(UploadPath(1), 0)])
        /\ started = MaxRequests - 2
        /\ resp = Response("extract-audio", 0, 200)

ConcurrentSpec == ConcurrentInit /\ [][Next]_vars

\* ------------------------------------------------------ moment analysis
\* Times are in tenths of a second. A JavaScript object whose fields may be
\* missing is a function on the names of the fields it has.
Seconds(n) == 10 * n
Min(a, b) == IF a < b THEN a ELSE b
Max(a, b) == IF a > b THEN a ELSE b

\* o[k] || d for a number: undefined and 0 are falsy
NumberOr(o, k, d) == IF k \in DOMAIN o /\ o[k] # 0 THEN o[k] ELSE d
\* o[k] || [] for an array
ArrayOr(o, k) == IF k \in DOMAIN o THEN o[k] ELSE <<>>

\* TranscriptionService.processTranscriptionForAnalysis: the segments go to
\* timestampedSegments and the duration to totalDuration (the texts are kept
\* as the flag indicator: the text holds one of the topic indicators)
processTranscriptionForAnalysis(transcription) ==
  IF "duration" \in DOMAIN transcription
  THEN [timestampedSegments |-> ArrayOr(transcription, "segments"),
        totalDuration |-> transcription.duration]
  ELSE [timestampedSegments |-> ArrayOr(transcription, "segments")]

\* the segments.forEach of createLiberalFallback from segment i on
RECURSIVE LiberalScan(_, _, _, _, _, _)
LiberalScan(segments, i, duration, currentMomentStart, lastMomentEnd, moments) ==
  IF i > Len(segments)
  THEN [moments |-> moments, currentMomentStart |-> currentMomentStart]
  ELSE LET segment == segments[i]
       IN IF /\ segment.indicator \/ segment.start - lastMomentEnd > Seconds(15)
             /\ lastMomentEnd < segment.start - Seconds(5)
          THEN LiberalScan(segments, i + 1, duration, segment.start, segment.start,
                           Append(moments, [startTime |-> Max(0, currentMomentStart),
                                            endTime |-> Min(duration, segment.start),
                                            importance |-> 6]))
          ELSE LiberalScan(segments, i + 1, duration, currentMomentStart, lastMomentEnd, moments)

\* MomentAnalyzer.createLiberalFallback
createLiberalFallback(transcription) ==
  LET segments == ArrayOr(transcription, "segments")
      duration == NumberOr(transcription, "duration", 0)
      scan == LiberalScan(segments, 1, duration, 0, 0, <<>>)
      withFinal == IF scan.currentMomentStart < duration - Seconds(10)
                   THEN Append(scan.moments, [startTime |-> scan.currentMomentStart,
                                              endTime |-> duration, importance |-> 6])
                   ELSE scan.moments
      segmentLength == duration \div 3
      moments == IF Len(withFinal) < 3 /\ duration > Seconds(60)
                 THEN [i \in 1..3 |-> [startTime |-> (i - 1) * segmentLength,
                                       endTime |-> Min(i * segmentLength, duration),
                                       importance |-> 5 + (i - 1)]]
                 ELSE withFinal
  IN [success |-> TRUE, provider |-> "liberal-fallback", keyMoments |-> moments]

\* MomentAnalyzer.createFallbackAnalysis
createFallbackAnalysis(transcription) ==
  [success |-> FALSE, provider |-> "fallback", keyMoments |-> <<>>]

\* a correction that also takes 1 and 10 seconds for minutes
FixTimestampInclusive(t) == IF t <= Seconds(10) /\ t >= Seconds(1) THEN t * 60 ELSE t

\* the correction of parseGeminiResponse for one reported time
FixTimestamp(t) == IF t < Seconds(10) /\ t > Seconds(1) THEN t * 60 ELSE t

\* the videoDuration of parseGeminiResponse:
\* transcription.duration || transcription.totalDuration ||
\* analysis.totalOriginalDuration || 300
videoDuration(transcription, analysis) ==
  NumberOr(transcription, "duration",
    NumberOr(transcription, "totalDuration",
      NumberOr(analysis, "totalOriginalDuration", Seconds(300))))

\* MomentAnalyzer.parseGeminiResponse; a response has parses = FALSE when it
\* holds no JSON object or JSON.parse throws
parseGeminiResponse(response, transcription) ==
  IF ~response.parses THEN createLiberalFallback(transcription)
  ELSE IF ArrayOr(response.analysis, "keyMoments") = <<>>
  THEN createLiberalFallback(transcription)
  ELSE
    LET analysis == response.analysis
        fixed == [i \in 1..Len(analysis.keyMoments) |->
                    [analysis.keyMoments[i] EXCEPT !.startTime = FixTimestamp(@),
                                                   !.endTime = FixTimestamp(@)]]
        isValid(moment) == /\ moment.startTime >= 0
                           /\ moment.endTime <= videoDuration(transcription, analysis)
                           /\ moment.startTime < moment.endTime
    IN [success |-> TRUE, provider |-> "gemini-1.5-pro",
        keyMoments |-> SelectSeq(fixed, isValid)]

\* MomentAnalyzer.analyzeKeyMoments: the service call throws, or its text is
\* parsed
analyzeKeyMoments(response, transcription) ==
  IF response.threw THEN createFallbackAnalysis(transcription)
  ELSE parseGeminiResponse(response, transcription)

\* ------------------------------------- calls of the processors' functions
\* While one function is examined the server is at rest.
ServerAtRest ==
  /\ now = 0
  /\ logFiles = [d \in Days |-> <<>>]
  /\ files = [p \in {} |-> 0]
  /\ reqs = [s \in 1..MaxInflight |-> Idle]
  /\ started = 0
  /\ resp = NoResp

server == <<now, logFiles, files, reqs, started, resp>>

\* the sequences over S of length at most n
SeqsUpTo(S, n) == UNION {[1..k -> S] : k \in 0..n}

\* the transcripts of transcribeAudio: segments in the order of their start,
\* and the duration of the audio (0: no duration reported)
SegmentStarts == {0, Seconds(30), Seconds(80)}
SegmentLists ==
  {l \in SeqsUpTo([start : SegmentStarts, indicator : BOOLEAN], MaxSegments) :
     \A i \in 1..(Len(l) - 1) : l[i].start < l[i + 1].start}
Transcripts == [segments : SegmentLists, duration : {0, Seconds(90), Seconds(300)}]

\* the answers of the moment-detection service: it throws, its text is not
\* JSON, or its text is an analysis whose moments carry the reported times
ReportedMoments ==
  [startTime : {-10, 0, 10, 15, 100}, endTime : {10, 32, 100, 900, 1920},
   importance : {7}]
ReportedAnalyses ==
  LET lists == SeqsUpTo(ReportedMoments, MaxReported)
  IN {[keyMoments |-> l] : l \in lists}
       \cup {[keyMoments |-> l, totalOriginalDuration |-> Seconds(200)] : l \in lists}
       \cup {[totalOriginalDuration |-> Seconds(200)]}
NoAnalysis == [totalOriginalDuration |-> 0]
Responses ==
  {[threw |-> TRUE, parses |-> FALSE, analysis |-> NoAnalysis],
   [threw |-> FALSE, parses |-> FALSE, analysis |-> NoAnalysis]}
    \cup {[threw |-> FALSE, parses |-> TRUE, analysis |-> a] : a \in ReportedAnalyses}

NoResult == [success |-> FALSE, provider |-> "none", keyMoments |-> <<>>]

AnalysisInit ==
  /\ ServerAtRest
  /\ \E r \in Responses, t \in Transcripts :
       call = [fn |-> "analyzeKeyMoments", response |-> r, raw |-> t,
               via |-> "none", done |-> FALSE, result |-> NoResult]

\* the routes' call: analyzeKeyMoments gets the result of
\* processTranscriptionForAnalysis
AnalyzeProcessed ==
  /\ call.fn = "analyzeKeyMoments" /\ ~call.done
  /\ call' = [call EXCEPT
       !.via = "processed", !.done = TRUE,
       !.result = analyzeKeyMoments(call.response,
                                    processTranscriptionForAnalysis(call.raw))]
  /\ UNCHANGED server

\* a call of analyzeKeyMoments with the transcript of transcribeAudio itself
AnalyzeRaw ==
  /\ call.fn = "analyzeKeyMoments" /\ ~call.done
  /\ call' = [call EXCEPT
       !.via = "raw", !.done = TRUE,
       !.result = analyzeKeyMoments(call.response, call.raw)]
  /\ UNCHANGED server

AnalysisNext == AnalyzeProcessed \/ AnalyzeRaw

AnalysisSpec == AnalysisInit /\ [][AnalysisNext]_vars

\* ------------------------------------------------------------ filterMoments
\* options[k] is truthy: the field is there and is not 0
Truthy(o, k) == k \in DOMAIN o /\ o[k] # 0

\* an unstable order: by decreasing key, equal keys in reverse
RECURSIVE ReversingIndices(_, _)
ReversingIndices(keys, n) ==
  IF n = 0 THEN <<>>
  ELSE LET before == ReversingIndices(keys, n - 1)
           k == Cardinality({j \in 1..Len(before) : keys[before[j]] > keys[n]})
       IN SubSeq(before, 1, k) \o <<n>> \o SubSeq(before, k + 1, Len(before))

\* the indices 1..n in the order Array.prototype.sort gives for a comparator
\* (a, b) => key(b) - key(a): by decreasing key, equal keys in their order
\* (the sort is stable)
RECURSIVE SortedIndices(_, _)
SortedIndices(keys, n) ==
  IF n = 0 THEN <<>>
  ELSE LET before == SortedIndices(keys, n - 1)
           k == Cardinality({j \in 1..Len(before) : keys[before[j]] >= keys[n]})
       IN SubSeq(before, 1, k) \o <<n>> \o SubSeq(before, k + 1, Len(before))

\* array.sort((a, b) => key(b) - key(a)), keys[i] the key of array[i]
sort(array, keys) ==
  LET order == SortedIndices(keys, Len(array))
  IN [i \in 1..Len(array) |-> array[order[i]]]

\* array.sort((a, b) => a.importance - b.importance): the least important first
SortByImportanceAscending(array) ==
  sort(array, [i \in 1..Len(array) |-> 0 - array[i].importance])

\* array.sort((a, b) => b.importance - a.importance)
SortByImportance(array) == sort(array, [i \in 1..Len(array) |-> array[i].importance])

\* array.sort((a, b) => (b.endTime - b.startTime) - (a.endTime - a.startTime))
SortByDuration(array) ==
  sort(array, [i \in 1..Len(array) |-> array[i].endTime - array[i].startTime])

\* array.sort((a, b) => a.startTime - b.startTime)
SortByStartTime(array) == sort(array, [i \in 1..Len(array) |-> 0 - array[i].startTime])

\* filterMoments: limit total number of moments
Limit(filtered, options) ==
  IF Truthy(options, "maxMoments") /\ Len(filtered) > options["maxMoments"]
  THEN SubSeq(SortByImportance(filtered), 1, options["maxMoments"])
  ELSE filtered

\* a final order that is left out when the moments were limited
FinalSortUnlessLimited(filtered, options) ==
  IF Truthy(options, "maxMoments") /\ Len(filtered) = options["maxMoments"]
  THEN filtered
  ELSE SortByStartTime(filtered)

\* filterMoments: sort moments for final order
FinalSort(filtered, options) ==
  LET sortBy == IF "sortMomentsBy" \in DOMAIN options
                THEN options["sortMomentsBy"] ELSE "chronological"
  IN CASE sortBy = "importance" -> SortByImportance(filtered)
       [] sortBy = "duration" -> SortByDuration(filtered)
       [] OTHER -> SortByStartTime(filtered)

\* VideoSummarizer.filterMoments
filterMoments(moments, options) ==
  LET byImportance ==
        IF Truthy(options, "minImportance")
        THEN SelectSeq(moments, LAMBDA m : m.importance >= options["minImportance"])
        ELSE moments
      byCategory ==
        IF "includeCategories" \in DOMAIN options /\ options["includeCategories"] # {}
        THEN SelectSeq(byImportance, LAMBDA m : m.category \in options["includeCategories"])
        ELSE byImportance
      byDuration ==
        IF Truthy(options, "maxMomentDuration")
        THEN SelectSeq(byCategory,
                       LAMBDA m : m.endTime - m.startTime <= options["maxMomentDuration"])
        ELSE byCategory
  IN FinalSort(Limit(byDuration, options), options)

\* the moments of a call: the title tells them apart
MomentKinds ==
  {[importance |-> i, startTime |-> s, endTime |-> s + d] :
     i \in {5, 7}, s \in {0, Seconds(1)}, d \in {Seconds(1), Seconds(2)}}
Titled(kinds) ==
  [i \in 1..Len(kinds) |->
     [title |-> i, category |-> IF i % 2 = 1 THEN "a" ELSE "b",
      importance |-> kinds[i].importance,
      startTime |-> kinds[i].startTime, endTime |-> kinds[i].endTime]]

\* eight moments of importance 9, 3, 7, 8, 2, 6, 5, 4
EightMoments ==
  LET importances == <<9, 3, 7, 8, 2, 6, 5, 4>>
  IN [i \in 1..8 |->
        [title |-> i, category |-> IF i % 2 = 1 THEN "a" ELSE "b",
         importance |-> importances[i],
         startTime |-> Seconds(i), endTime |-> Seconds(i + 1)]]

MomentLists == {Titled(k) : k \in SeqsUpTo(MomentKinds, MaxListed)} \cup {EightMoments}

\* the options a caller passes: every field may be left out
OptionFields ==
  {"minImportance", "includeCategories", "maxMomentDuration", "maxMoments", "sortMomentsBy"}
FilterOptions ==
  LET all == [minImportance : {5, 7}, includeCategories : {{}, {"a"}},
              maxMomentDuration : {0, Seconds(1)}, maxMoments : 0..MaxLimit,
              sortMomentsBy : {"importance", "duration", "chronological", "random"}]
  IN {[k \in D |-> o[k]] : o \in all, D \in SUBSET OptionFields}

FilterInit ==
  /\ ServerAtRest
  /\ \E m \in MomentLists, o \in FilterOptions :
       call = [fn |-> "filterMoments", moments |-> m, options |-> o,
               passes |-> 0, out |-> <<>>, again |-> <<>>]

\* filterMoments(moments, options)
Filter ==
  /\ call.fn = "filterMoments" /\ call.passes = 0
  /\ call' = [call EXCEPT !.passes = 1, !.out = filterMoments(call.moments, call.options)]
  /\ UNCHANGED server

\* filterMoments applied to its own result with the same options
FilterAgain ==
  /\ call.fn = "filterMoments" /\ call.passes = 1
  /\ call' = [call EXCEPT !.passes = 2, !.again = filterMoments(call.out, call.options)]
  /\ UNCHANGED server

FilterNext == Filter \/ FilterAgain

FilterSpec == FilterInit /\ [][FilterNext]_vars

\* -------------------------------------------------- generateCompositionPlan
\* options[k] || false for a flag
FlagOr(o, k) == k \in DOMAIN o /\ o[k]

\* segments.reduce((sum, seg) => sum + seg.duration, 0)
RECURSIVE SumDurations(_)
SumDurations(segments) ==
  IF segments = <<>> THEN 0
  ELSE segments[1].duration + SumDurations(Tail(segments))

\* VideoComposer.generateCompositionPlan. Durations are in tenths of a second
\* and speed factors in tenths (10 is the factor 1.0), so the defaults 0.5 s,
\* 2 s and 1.0 are 5, 20 and 10.
generateCompositionPlan(segments, options) ==
  LET transitions ==
        [enabled |-> ~("enableTransitions" \in DOMAIN options /\ ~options["enableTransitions"]),
         duration |-> NumberOr(options, "transitionDuration", 5)]
      intro == [enabled |-> FlagOr(options, "enableIntro"),
                duration |-> NumberOr(options, "introDuration", 20)]
      speed == [enabled |-> FlagOr(options, "enableSpeedAdjustment"),
                factor |-> NumberOr(options, "speedFactor", 10)]
      total == SumDurations(segments)
      adjusted == IF speed.enabled /\ speed.factor # 10
                  THEN (total * 10) \div speed.factor
                  ELSE total
      withTransitions == IF transitions.enabled
                         THEN adjusted + (Len(segments) - 1) * transitions.duration
                         ELSE adjusted
      withIntro == IF intro.enabled THEN withTransitions + intro.duration
                   ELSE withTransitions
  IN [totalSegments |-> Len(segments), estimatedDuration |-> withIntro,
      transitions |-> transitions, intro |-> intro, speed |-> speed]

\* the segments of a call, of 2 s or 4 s each, and the options a caller
\* passes: every field may be left out
SegmentLengths == {Seconds(2), Seconds(4)}
PlanFields ==
  {"enableTransitions", "transitionDuration", "enableIntro", "introDuration",
   "enableSpeedAdjustment", "speedFactor"}
PlanOptions ==
  LET all == [enableTransitions : BOOLEAN, transitionDuration : {0, 5, Seconds(1)},
              enableIntro : BOOLEAN, introDuration : {0, Seconds(3)},
              enableSpeedAdjustment : BOOLEAN, speedFactor : {0, 5, 10, 20}]
  IN {[k \in D |-> o[k]] : o \in all, D \in SUBSET PlanFields}

NoPlan == [totalSegments |-> 0, estimatedDuration |-> 0,
           transitions |-> [enabled |-> FALSE, duration |-> 0],
           intro |-> [enabled |-> FALSE, duration |-> 0],
           speed |-> [enabled |-> FALSE, factor |-> 0]]

PlanInit ==
  /\ ServerAtRest
  /\ \E l \in SeqsUpTo(SegmentLengths, MaxPlanned), o \in PlanOptions :
       call = [fn |-> "generateCompositionPlan",
               segments |-> [i \in 1..Len(l) |-> [duration |-> l[i]]],
               options |-> o, done |-> FALSE, plan |-> NoPlan]

\* generateCompositionPlan(segments, options)
Plan ==
  /\ call.fn = "generateCompositionPlan" /\ ~call.done
  /\ call' = [call EXCEPT !.done = TRUE,
                          !.plan = generateCompositionPlan(call.segments, call.options)]
  /\ UNCHANGED server

PlanNext == Plan

PlanSpec == PlanInit /\ [][PlanNext]_vars

\* ------------------------------------------------------ getCompositionStats
\* Math.round(num / den) for den > 0: the nearest integer, halves upwards
Round(num, den) == (2 * num + den) \div (2 * den)

\* a ratio that is cut off at 0
ClampedRatio(originalDuration, finalDuration) ==
  Max(0, Round((originalDuration - finalDuration) * 10000, originalDuration))

\* getCompositionStats: Math.round(compressionRatio * 100) / 100 for
\* compressionRatio = (originalDuration - finalDuration) / originalDuration * 100,
\* in hundredths of a percent
compressionRatio(originalDuration, finalDuration) ==
  Round((originalDuration - finalDuration) * 10000, originalDuration)

\* VideoComposer.getCompositionStats; durations in tenths of a second, the
\* average segment duration in hundredths
getCompositionStats(segments, finalMetadata) ==
  LET originalDuration == SumDurations(segments)
  IN [originalSegments |-> Len(segments),
      originalDuration |-> originalDuration,
      finalDuration |-> finalMetadata.duration,
      compressionRatio |-> compressionRatio(originalDuration, finalMetadata.duration),
      averageSegmentDuration |-> Round(originalDuration * 10, Len(segments))]

\* the segments that were composed (at least one, see validateSegments) and
\* the duration that ffprobe reports for the composed video
StatsLengths == {Seconds(1), Seconds(2), Seconds(50)}
FinalDurations == {7, Seconds(1), Seconds(2), Seconds(40), Seconds(100), Seconds(120)}
NoStats == [originalSegments |-> 0, originalDuration |-> 0, finalDuration |-> 0,
            compressionRatio |-> 0, averageSegmentDuration |-> 0]

StatsInit ==
  /\ ServerAtRest
  /\ \E l \in SeqsUpTo(StatsLengths, MaxComposed), f \in FinalDurations :
       /\ l # <<>>
       /\ call = [fn |-> "getCompositionStats",
                  segments |-> [i \in 1..Len(l) |-> [duration |-> l[i]]],
                  finalMetadata |-> [duration |-> f], done |-> FALSE, stats |-> NoStats]

\* getCompositionStats(segments, finalMetadata)
Stats ==
  /\ call.fn = "getCompositionStats" /\ ~call.done
  /\ call' = [call EXCEPT !.done = TRUE,
                          !.stats = getCompositionStats(call.segments, call.finalMetadata)]
  /\ UNCHANGED server

StatsNext == Stats

StatsSpec == StatsInit /\ [][StatsNext]_vars

\* ------------------------------------------------------------ composeSegments
\* the segment that extractSingleMoment resolves with for moments[index - 1]
Segment(moment, index) ==
  [index |-> index, title |-> moment.title, importance |-> moment.importance,
   originalStartTime |-> moment.startTime,
   duration |-> moment.endTime - moment.startTime]

\* extractMomentClips: one segment per moment, in the order of the moments
extractMomentClips(moments) == [i \in 1..Len(moments) |-> Segment(moments[i], i)]

\* a composer that leaves the segments as they come
sortSegmentsNot(segments, sortBy) == segments

\* VideoComposer.sortSegments
sortSegments(segments, sortBy) ==
  CASE sortBy = "importance" ->
         sort(segments, [i \in 1..Len(segments) |-> segments[i].importance])
    [] sortBy = "duration" ->
         sort(segments, [i \in 1..Len(segments) |-> segments[i].duration])
    [] sortBy = "chronological" ->
         sort(segments, [i \in 1..Len(segments) |-> 0 - segments[i].originalStartTime])
    [] OTHER ->
         sort(segments, [i \in 1..Len(segments) |-> 0 - segments[i].index])

\* composeSegments: options.sortBy || 'order'
SortPolicy(composition) ==
  IF "sortBy" \in DOMAIN composition THEN composition["sortBy"] ELSE "order"

\* a plan that depends on what has run before
PlanOfSecondRun(segments, composition) ==
  [generateCompositionPlan(segments, composition)
     EXCEPT !.estimatedDuration =
       @ + Cardinality({r \in DOMAIN call.runs : call.runs[r].stage = "composed"})]

\* composeSegments: the plan for the sorted segments
compositionPlan(segments, composition) == generateCompositionPlan(segments, composition)

\* the options of createVideoSummary: the filter's options and, under
\* composition, the composer's
SummaryFilterOptions ==
  LET all == [maxMoments : {2}, sortMomentsBy : {"importance", "duration"}]
  IN {[k \in D |-> o[k]] : o \in all, D \in SUBSET {"maxMoments", "sortMomentsBy"}}
CompositionOptions ==
  LET all == [sortBy : {"order", "importance", "duration", "chronological", "shuffle"},
              transitionDuration : {Seconds(1)}]
  IN {[k \in D |-> o[k]] : o \in all, D \in SUBSET {"sortBy", "transitionDuration"}}

Runs == 1..2
NoRun == [stage |-> "start", filtered |-> <<>>, segments |-> <<>>,
          concat |-> <<>>, plan |-> NoPlan]

\* two runs start from the same moments of the log and the same options
ComposeInit ==
  /\ ServerAtRest
  /\ \E m \in MomentLists, o \in SummaryFilterOptions, c \in CompositionOptions :
       /\ m # <<>> /\ Len(m) <= MaxListed
       /\ call = [fn |-> "composeSegments", moments |-> m, options |-> o,
                  composition |-> c, runs |-> [r \in Runs |-> NoRun]]

\* createVideoSummary up to the end of extractMomentClips
FilterAndExtract(r) ==
  /\ call.fn = "composeSegments" /\ call.runs[r].stage = "start"
  /\ LET filtered == filterMoments(call.moments, call.options)
     IN call' = [call EXCEPT !.runs[r].stage = "extracted",
                             !.runs[r].filtered = filtered,
                             !.runs[r].segments = extractMomentClips(filtered)]
  /\ UNCHANGED server

\* composeSegments up to the concat file of createComposedVideo: the
\* segments are written in sorted order
Compose(r) ==
  /\ call.fn = "composeSegments" /\ call.runs[r].stage = "extracted"
  /\ LET sortedSegments == sortSegments(call.runs[r].segments, SortPolicy(call.composition))
     IN call' = [call EXCEPT !.runs[r].stage = "composed",
                             !.runs[r].concat = sortedSegments,
                             !.runs[r].plan = compositionPlan(sortedSegments, call.composition)]
  /\ UNCHANGED server

ComposeNext == \E r \in Runs : FilterAndExtract(r) \/ Compose(r)

ComposeSpec == ComposeInit /\ [][ComposeNext]_vars

\* ----------------------------------------------------------------- cleanupJob
\* segments/<jobId>/ and thumbnails/<jobId>/ as directories, and a thumbnail
SegmentDir(jobId) == <<"segments", "dir", jobId, 0>>
ThumbDir(jobId) == <<"thumbnails", "dir", jobId, 0>>
ThumbPath(jobId, i) == <<"thumbnails", "thumb", jobId, i>>

\* fs.readdirSync of segments/<jobId> or thumbnails/<jobId>
readdir(f, top, jobId) == {p \in DOMAIN f : p[1] = top /\ p[3] = jobId /\ p[2] # "dir"}

\* VideoSegmenter.cleanupSegments: the files left and the result returned
cleanupSegments(f, jobId) ==
  IF ~Exists(f, SegmentDir(jobId))
  THEN [files |-> f, result |-> [success |-> TRUE]]
  ELSE LET dirFiles == readdir(f, "segments", jobId)
       IN [files |-> RemoveFiles(f, dirFiles \cup {SegmentDir(jobId)}),
           result |-> [success |-> TRUE, deletedFiles |-> Cardinality(dirFiles)]]

\* VideoSummarizer.cleanupThumbnails
cleanupThumbnails(f, jobId) ==
  IF Exists(f, ThumbDir(jobId))
  THEN LET dirFiles == readdir(f, "thumbnails", jobId)
       IN [files |-> RemoveFiles(f, dirFiles \cup {ThumbDir(jobId)}),
           result |-> [success |-> TRUE, deletedFiles |-> Cardinality(dirFiles)]]
  ELSE [files |-> f, result |-> [success |-> TRUE, deletedFiles |-> 0]]

\* VideoSummarizer.cleanupOutput
cleanupOutput(f, jobId) ==
  LET outputFiles == {OutputPath(jobId), PreviewPath(jobId)} \cap DOMAIN f
  IN [files |-> RemoveFiles(f, outputFiles),
      result |-> [success |-> TRUE, deletedFiles |-> Cardinality(outputFiles)]]

\* VideoSummarizer.cleanupJob
cleanupJob(f, jobId) ==
  LET segments == cleanupSegments(f, jobId)
      thumbnails == cleanupThumbnails(segments.files, jobId)
      output == cleanupOutput(thumbnails.files, jobId)
  IN [files |-> output.files,
      result |-> [success |-> TRUE,
                  results |-> [segments |-> segments.result,
                               thumbnails |-> thumbnails.result,
                               output |-> output.result]]]

\* what createVideoSummary can have left for a job: its directories with some
\* clips and thumbnails, the summary, the preview
CleanupJobs == 1..2
ArtifactSets(jobId) ==
  {clips \cup thumbs \cup out :
     clips \in {{}} \cup {{SegmentDir(jobId)} \cup SegmentPaths(jobId, n) : n \in 0..MaxClips},
     thumbs \in {{}} \cup {{ThumbDir(jobId)} \cup {ThumbPath(jobId, i) : i \in 1..n} : n \in 0..MaxClips},
     out \in SUBSET {OutputPath(jobId), PreviewPath(jobId)}}

CleanupInit ==
  /\ now = 0
  /\ logFiles = [d \in Days |-> <<>>]
  /\ reqs = [s \in 1..MaxInflight |-> Idle]
  /\ started = 0
  /\ resp = NoResp
  /\ \E a \in ArtifactSets(1), b \in ArtifactSets(2) : files = [p \in a \cup b |-> 0]
  /\ call = [fn |-> "cleanupJob", calls |-> 0, jobId |-> 0, previous |-> 0,
             before |-> files, result |-> cleanupJob(files, 0).result]

\* cleanupJob(jobId); the call keeps the job of the call before it and the
\* files it found
CleanupCall(jobId) ==
  /\ call.fn = "cleanupJob" /\ call.calls < MaxCleanups
  /\ files' = cleanupJob(files, jobId).files
  /\ call' = [fn |-> "cleanupJob", calls |-> call.calls + 1, jobId |-> jobId,
              previous |-> call.jobId, before |-> files,
              result |-> cleanupJob(files, jobId).result]
  /\ UNCHANGED <<now, logFiles, reqs, started, resp>>

CleanupNext == \E jobId \in CleanupJobs : CleanupCall(jobId)

CleanupSpec == CleanupInit /\ [][CleanupNext]_vars

\* ------------------------------------------------------- createVideoSummary
\* if (options.createThumbnails), if (options.createPreview)
Flag(options, k) == k \in DOMAIN options /\ options[k]

\* VideoSummarizer.validateInputs: the message of the error it throws, <<>>
\* when it returns
validateInputs(videoExists, moments) ==
  IF ~videoExists THEN <<"Video file not found">>
  ELSE IF moments = <<>> THEN <<"No moments provided for summarization">>
  ELSE IF \E i \in DOMAIN moments :
            \/ moments[i].startTime = 0 \/ moments[i].endTime = 0
            \/ moments[i].startTime >= moments[i].endTime
       THEN <<"Invalid moment timing">>
  ELSE <<>>

\* the catch blocks: each puts its own words before the message it caught
SummarizationFailed(message) == <<"Summarization failed">> \o message
SegmentationFailed(message) == <<"Segmentation failed">> \o message
CompositionFailed(message) == <<"Composition failed">> \o message

\* a loop that ends after its first moment
MoreMomentsNever(i, moments) == FALSE

\* extractMomentClips: for (let i = 0; i < moments.length; i++), with i
\* moments extracted so far
MoreMoments(i, moments) == i < Len(moments)

Step(name, moment) == [step |-> name, moment |-> moment]

\* createVideoSummary from the end of extractMomentClips to its next await:
\* the thumbnails when asked for, else composeSegments up to ffmpeg
\* composeSegments up to createComposedVideo: options.composition || {},
\* the segments sorted and the plan made for them
StartComposition(c) ==
  LET composition == IF "composition" \in DOMAIN c.options
                     THEN c.options["composition"] ELSE [k \in {} |-> 0]
      sortedSegments == sortSegments(c.segments, SortPolicy(composition))
  IN [c EXCEPT !.pc = "compose", !.steps = @ \o <<Step("compose", 0)>>,
               !.plan = compositionPlan(sortedSegments, composition)]

AfterSegmentation(c) ==
  IF Flag(c.options, "createThumbnails")
  THEN [c EXCEPT !.pc = "thumbnails", !.steps = @ \o <<Step("thumbnails", 0)>>]
  ELSE StartComposition(c)

\* VideoSummarizer.generateFinalSummary: the counts of statistics.compression
\* and of processing
generateFinalSummary(segments, moments) ==
  [originalMoments |-> Len(moments), usedMoments |-> Len(segments),
   momentsFiltered |-> Len(moments) - Len(segments)]

NoSummary == [originalMoments |-> 0, usedMoments |-> 0, momentsFiltered |-> 0]

SummaryOptions ==
  LET all == [maxMoments : {1}, sortMomentsBy : {"importance"},
              createThumbnails : BOOLEAN, createPreview : BOOLEAN]
  IN {[k \in D |-> o[k]] :
        o \in all,
        D \in SUBSET {"maxMoments", "sortMomentsBy", "createThumbnails", "createPreview"}}

\* a call of createVideoSummary that has not run yet
SummaryCall(videoExists, moments, options, quick) ==
  [fn |-> "createVideoSummary", quick |-> quick, videoExists |-> videoExists,
   moments |-> moments, options |-> options, pc |-> "start", filtered |-> <<>>,
   segments |-> <<>>, thumbnails |-> {}, plan |-> NoPlan, composed |-> FALSE,
   steps |-> <<>>, error |-> <<>>, summary |-> NoSummary]

\* a quick summary that takes every moment
createQuickSummaryOfAll(videoExists, moments) ==
  SummaryCall(videoExists, moments,
              [maxMoments |-> 5, sortMomentsBy |-> "importance",
               composition |-> [enableTransitions |-> FALSE, enableIntro |-> FALSE],
               createThumbnails |-> FALSE, createPreview |-> FALSE],
              TRUE)

\* VideoSummarizer.createQuickSummary: createVideoSummary with quickOptions
createQuickSummary(videoExists, moments) ==
  SummaryCall(videoExists, moments,
              [maxMoments |-> 5, minImportance |-> 6, sortMomentsBy |-> "importance",
               composition |-> [enableTransitions |-> FALSE, enableIntro |-> FALSE],
               createThumbnails |-> FALSE, createPreview |-> FALSE],
              TRUE)

\* the moments of a quick summary: moment i has importance 7, 10, 6, 9, 5,
\* 8, 4, 7, ... and lasts from second i to second i + 1; a call gets the
\* moments i..j
QuickMoment(i) ==
  [title |-> i, category |-> "a", importance |-> 4 + ((3 * i) % 7),
   startTime |-> Seconds(i), endTime |-> Seconds(i + 1)]
QuickMomentLists ==
  {[k \in 1..(j - i + 1) |-> QuickMoment(i + k - 1)] : i \in 1..MaxQuick, j \in 0..MaxQuick}

SummaryInit ==
  /\ ServerAtRest
  /\ \/ \E e \in BOOLEAN, k \in SeqsUpTo(MomentKinds, MaxSummarized), o \in SummaryOptions :
          call = SummaryCall(e, Titled(k), o, FALSE)
     \/ \E e \in BOOLEAN, m \in QuickMomentLists : call = createQuickSummary(e, m)

\* createVideoSummary up to its first await: validateInputs, filterMoments
\* and extractMomentClips up to the first extractSingleMoment
ValidateAndFilter ==
  /\ call.fn = "createVideoSummary" /\ call.pc = "start"
  /\ LET invalid == validateInputs(call.videoExists, call.moments)
         filtered == filterMoments(call.moments, call.options)
     IN call' =
          IF invalid # <<>>
          THEN [call EXCEPT !.pc = "failed", !.steps = <<Step("validate", 0)>>,
                            !.error = SummarizationFailed(invalid)]
          ELSE IF filtered = <<>>
          THEN [call EXCEPT !.pc = "failed",
                            !.steps = <<Step("validate", 0), Step("filter", 0),
                                        Step("segment", 0)>>,
                            !.error = SummarizationFailed(SegmentationFailed(
                                        <<"No moments provided for segmentation">>))]
          ELSE [call EXCEPT !.pc = "extract", !.filtered = filtered,
                            !.steps = <<Step("validate", 0), Step("filter", 0),
                                        Step("segment", 0),
                                        Step("extract", filtered[1].title)>>]
  /\ UNCHANGED server

\* extractSingleMoment settles: ffmpeg ended (ok) or reported an error
ExtractSingleMomentDone(ok) ==
  /\ call.fn = "createVideoSummary" /\ call.pc = "extract"
  /\ LET i == Len(call.segments) + 1
         extracted == [call EXCEPT !.segments = Append(@, Segment(call.filtered[i], i))]
     IN call' =
          IF ~ok
          THEN [call EXCEPT !.pc = "failed",
                            !.error = SummarizationFailed(SegmentationFailed(
                                        <<"Segment extraction failed">>))]
          ELSE IF MoreMoments(i, call.filtered)
          THEN [extracted EXCEPT
                  !.steps = @ \o <<Step("extract", call.filtered[i + 1].title)>>]
          ELSE AfterSegmentation(extracted)
  /\ UNCHANGED server

\* createSegmentThumbnails returns: a thumbnail that could not be made is
\* only warned about
ThumbnailsDone(made) ==
  /\ call.fn = "createVideoSummary" /\ call.pc = "thumbnails"
  /\ call' = StartComposition([call EXCEPT !.thumbnails = made])
  /\ UNCHANGED server

\* composeSegments settles; on success generateFinalSummary is called with
\* the filtered moments
ComposeDone(ok) ==
  /\ call.fn = "createVideoSummary" /\ call.pc = "compose"
  /\ LET summary == generateFinalSummary(call.segments, call.filtered)
     IN call' =
          IF ~ok
          THEN [call EXCEPT !.pc = "failed",
                            !.error = SummarizationFailed(CompositionFailed(
                                        <<"Video composition failed">>))]
          ELSE IF Flag(call.options, "createPreview")
          THEN [call EXCEPT !.pc = "preview", !.composed = TRUE, !.summary = summary,
                            !.steps = @ \o <<Step("preview", 0)>>]
          ELSE [call EXCEPT !.pc = "done", !.composed = TRUE, !.summary = summary]
  /\ UNCHANGED server

\* createPreview settles
PreviewDone(ok) ==
  /\ call.fn = "createVideoSummary" /\ call.pc = "preview"
  /\ call' =
       IF ok THEN [call EXCEPT !.pc = "done"]
       ELSE [call EXCEPT !.pc = "failed",
                         !.error = SummarizationFailed(<<"Video composition failed">>)]
  /\ UNCHANGED server

SummaryNext ==
  \/ ValidateAndFilter
  \/ \E ok \in BOOLEAN : ExtractSingleMomentDone(ok)
  \/ \E made \in SUBSET (1..Len(call.segments)) : ThumbnailsDone(made)
  \/ \E ok \in BOOLEAN : ComposeDone(ok)
  \/ \E ok \in BOOLEAN : PreviewDone(ok)

SummarySpec == SummaryInit /\ [][SummaryNext]_vars

\* ------------------------------------- create-summary, one await at a time
\* the server after POST /process-full has answered 200 for job 0 with
\* MaxMoments key moments; two more requests may start
RaceInit ==
  /\ now = 0
  /\ reqs = [s \in 1..(MaxInflight + 1) |-> Idle]
  /\ call = NoCall
  /\ started = MaxRequests - 2
  /\ files = WriteFiles([p \in {} |-> 0], {ProcPath(1), AudioPath(ProcPath(1), 0)}, 0)
  /\ LET analysis == [provider |-> "gemini-1.5-pro", result |-> MaxMoments]
         l1 == logActivity([d \in Days |-> <<>>], 0, 0, "processing_started",
                           [NoDetails EXCEPT !.file = ProcPath(1)])
         l2 == logActivity(l1, 0, 0, "metadata_extracted", NoDetails)
         l3 == logActivity(l2, 0, 0, "audio_extraction_completed",
                           [NoDetails EXCEPT !.file = AudioPath(ProcPath(1), 0)])
         l4 == logActivity(l3, 0, 0, "transcription_completed",
                           [NoDetails EXCEPT !.result = 1])
         l5 == logActivity(l4, 0, 0, "moment_analysis_completed", AnalysisDetails(analysis))
     IN /\ logFiles = logActivity(l5, 0, 0, "full_processing_completed", NoDetails)
        /\ resp = [Response("process-full", 0, 200)
                     EXCEPT !.result = analysis.result, !.provider = analysis.provider]

\* the catch block of POST /create-summary/:jobId
CreateSummaryCatch(s) ==
  /\ logFiles' = logActivity(logFiles, now, reqs[s].jobId, "video_summarization_failed",
                             [NoDetails EXCEPT !.error = "Summarization failed"])
  /\ Reply(s, Response("create-summary", reqs[s].jobId, 500))

\* extractMomentClips has returned m clips and composeSegments has gone on
\* to createComposedVideo, which writes temp/concat_<jobId>.txt and starts
\* ffmpeg; or createVideoSummary has thrown with m clips written
ExtractMomentClipsDone(s) ==
  /\ reqs[s].op = "create-summary" /\ reqs[s].pc = "summarize"
  /\ \/ \E m \in 1..reqs[s].arg :
          /\ Exists(files, reqs[s].file)
          /\ files' = WriteFiles(files, SegmentPaths(reqs[s].jobId, m)
                                          \cup {ConcatPath(reqs[s].jobId)}, now)
          /\ logFiles' = logFiles
          /\ Continue(s, [reqs[s] EXCEPT !.pc = "compose", !.arg = m])
     \/ \E m \in 0..(reqs[s].arg - 1) :
          /\ files' = WriteFiles(files, SegmentPaths(reqs[s].jobId, m), now)
          /\ CreateSummaryCatch(s)
  /\ UNCHANGED now

\* ffmpeg's 'end' event in createComposedVideo: fs.unlinkSync(concatFile),
\* then the promise resolves and the handler logs the completion. When the
\* concat file is gone unlinkSync throws inside the event handler: the
\* promise is never settled and the request stays where it is for good
ComposedVideoEnd(s) ==
  /\ reqs[s].op = "create-summary" /\ reqs[s].pc = "compose"
  /\ IF Exists(files, ConcatPath(reqs[s].jobId))
     THEN /\ files' = RemoveFiles(WriteFile(files, OutputPath(reqs[s].jobId), now),
                                  {ConcatPath(reqs[s].jobId)})
          /\ logFiles' = logActivity(logFiles, now, reqs[s].jobId,
                                     "video_summarization_completed",
                                     [NoDetails EXCEPT !.result = reqs[s].arg,
                                                       !.file = OutputPath(reqs[s].jobId)])
          /\ Reply(s, [Response("create-summary", reqs[s].jobId, 200)
                         EXCEPT !.result = reqs[s].arg])
     ELSE /\ files' = WriteFile(files, OutputPath(reqs[s].jobId), now)
          /\ logFiles' = logFiles
          /\ Continue(s, [reqs[s] EXCEPT !.pc = "unsettled"])
  /\ UNCHANGED now

\* ffmpeg's 'error' event in createComposedVideo: the concat file is removed
\* if it exists, the promise is rejected; a partial output may be left
ComposedVideoError(s) ==
  /\ reqs[s].op = "create-summary" /\ reqs[s].pc = "compose"
  /\ \E partial \in BOOLEAN :
       files' = RemoveFiles(IF partial THEN WriteFile(files, OutputPath(reqs[s].jobId), now)
                            ELSE files,
                            {ConcatPath(reqs[s].jobId)})
  /\ CreateSummaryCatch(s)
  /\ UNCHANGED now

RaceNext ==
  \/ Tick
  \/ \E j \in JobIds : CreateSummaryStart(j)
  \/ \E s \in Slots : ExtractMomentClipsDone(s)
  \/ \E s \in Slots : ComposedVideoEnd(s)
  \/ \E s \in Slots : ComposedVideoError(s)

RaceSpec == RaceInit /\ [][RaceNext]_vars

\* -------------------------------------------------------------- validateVideo
\* a file as validateVideo sees it: whether it exists, its size in MB,
\* whether ffprobe reads it, whether it has a video stream, and its duration
\* in tenths of a second (parseFloat(format.duration) || 0)
maxSize == 500
VideoFiles ==
  [exists : BOOLEAN, size : {1, maxSize, maxSize + 1}, readable : BOOLEAN,
   video : BOOLEAN, duration : {0, 5, Seconds(1), Seconds(1800), Seconds(1800) + 1}]

NoMetadata == [duration |-> 0, video |-> FALSE]
Invalid(error) == [valid |-> FALSE, error |-> error, metadata |-> NoMetadata]

\* a validation that takes thirty minutes for too long
validateVideoBelowMaximum(file) ==
  IF ~file.exists \/ file.size > maxSize \/ ~file.readable \/ ~file.video
       \/ file.duration < Seconds(1) \/ file.duration >= Seconds(1800)
  THEN Invalid("Video validation failed")
  ELSE [valid |-> TRUE, error |-> "",
        metadata |-> [duration |-> file.duration, video |-> file.video]]

\* VideoProcessor.validateVideo: every throw, the rejection of
\* getVideoMetadata included, is inside the try block and becomes valid: false
validateVideo(file) ==
  IF ~file.exists THEN Invalid("Video file does not exist")
  ELSE IF file.size > maxSize THEN Invalid("File too large")
  ELSE IF ~file.readable THEN Invalid("Failed to read video metadata")
  ELSE IF ~file.video THEN Invalid("File does not contain video stream")
  ELSE IF file.duration < Seconds(1) THEN Invalid("Video too short (minimum: 1 second)")
  ELSE IF file.duration > Seconds(1800) THEN Invalid("Video too long (maximum: 30 minutes)")
  ELSE [valid |-> TRUE, error |-> "",
        metadata |-> [duration |-> file.duration, video |-> file.video]]

\* the event the catch block of a convenience flow appends
FlowFailed(flow) ==
  IF flow = "process-full" THEN "full_processing_failed" ELSE "full_pipeline_failed"

ValidateInit ==
  /\ ServerAtRest
  /\ \E f \in VideoFiles, flow \in {"process-full", "process-and-summarize"} :
       call = [fn |-> "validateVideo", file |-> f, flow |-> flow, pc |-> "validate",
               result |-> Invalid(""), events |-> <<>>]

\* step 1 of a convenience flow: await validateVideo
ValidateVideoReturns ==
  /\ call.fn = "validateVideo" /\ call.pc = "validate"
  /\ call' = [call EXCEPT !.pc = "validated", !.result = validateVideo(call.file)]
  /\ UNCHANGED server

\* the flow after validateVideo: valid: false is thrown to the catch block;
\* otherwise step 2 logs metadata_extracted and the flow goes on to the audio
FlowAfterValidation ==
  /\ call.fn = "validateVideo" /\ call.pc = "validated"
  /\ call' = IF ~call.result.valid
             THEN [call EXCEPT !.pc = "failed", !.events = <<FlowFailed(call.flow)>>]
             ELSE [call EXCEPT !.pc = "audio", !.events = <<"metadata_extracted">>]
  /\ UNCHANGED server

ValidateNext == ValidateVideoReturns \/ FlowAfterValidation

ValidateSpec == ValidateInit /\ [][ValidateNext]_vars

\* ---------------------------------------------------------------- cleanupFile
\* a cleanup that unlinks without looking: the error of unlinkSync is caught
cleanupFileUnguarded(f, filePath) ==
  IF Exists(f, filePath)
  THEN [files |-> RemoveFiles(f, {filePath}),
        result |-> [success |-> TRUE, message |-> "File cleaned up successfully"]]
  ELSE [files |-> f, result |-> [success |-> FALSE, message |-> "ENOENT"]]

\* FileManager.cleanupFile
cleanupFile(f, filePath) ==
  IF Exists(f, filePath)
  THEN [files |-> RemoveFiles(f, {filePath}),
        result |-> [success |-> TRUE, message |-> "File cleaned up successfully"]]
  ELSE [files |-> f,
        result |-> [success |-> TRUE,
                    message |-> "File does not exist (already cleaned up)"]]

\* the temporary files a flow's catch block passes to cleanupFile
TempPaths ==
  {ProcPath(1), ProcPath(2), AudioPath(ProcPath(1), 0), AudioPath(ProcPath(2), 0)}
NoCleanup == [success |-> FALSE, message |-> ""]

CleanupFileInit ==
  /\ now = 0
  /\ logFiles = [d \in Days |-> <<>>]
  /\ reqs = [s \in 1..MaxInflight |-> Idle]
  /\ started = 0
  /\ resp = NoResp
  /\ \E P \in SUBSET (TempPaths \cup {UploadPath(1)}) : files = [p \in P |-> 0]
  /\ call = [fn |-> "cleanupFile", calls |-> 0, filePath |-> NoFile, before |-> files,
             result |-> NoCleanup, previous |-> NoFile, previousResult |-> NoCleanup]

\* cleanupFile(filePath); the call keeps the path and the result of the call
\* before it and the files it found
CleanupFileCall(filePath) ==
  /\ call.fn = "cleanupFile" /\ call.calls < MaxCleanups
  /\ files' = cleanupFile(files, filePath).files
  /\ call' = [fn |-> "cleanupFile", calls |-> call.calls + 1, filePath |-> filePath,
              before |-> files, result |-> cleanupFile(files, filePath).result,
              previous |-> call.filePath, previousResult |-> call.result]
  /\ UNCHANGED <<now, logFiles, reqs, started, resp>>

CleanupFileNext == \E filePath \in TempPaths : CleanupFileCall(filePath)

CleanupFileSpec == CleanupFileInit /\ [][CleanupFileNext]_vars

\* ----------------------------------------------------------------- claims
\* vocabulary of the claims
Has(logs, act) == \E i \in 1..Len(logs) : logs[i].activity = act
TodaysLog == logFiles[DayOf(now)]
LastEvent == IF TodaysLog = <<>> THEN NoEvent ELSE TodaysLog[Len(TodaysLog)]
\* the events a step appends (every append goes to the file of the current day)
NewEvents == SubSeq(logFiles'[DayOf(now)], Len(TodaysLog) + 1, Len(logFiles'[DayOf(now)]))
Appends(jobId, acts) ==
  \E i \in 1..Len(NewEvents) : NewEvents[i].jobId = jobId /\ NewEvents[i].activity \in acts
Waiting(op, jobId) == \E s \in Slots : reqs[s].op = op /\ reqs[s].jobId = jobId
StageOps == {"extract-audio", "transcribe", "analyze-moments", "create-summary", "quick-summary"}
FlowOps == {"process-full", "process-and-summarize"}
IsSourceMedia(p) == p[2] \in {"proc", "audio_p", "audio_u"}

\* C1: every downstream resolution takes its input from the last-appended
\* matching event: what GET /moments returns and what create-summary and
\* quick-summary take as moments are the details of the job's last
\* moment_analysis_completed event
C1_ResolvesLatestEvent ==
  \A j \in JobIds :
    LET logs == GetLogs(j)
        S == {i \in 1..Len(logs) : logs[i].activity = "moment_analysis_completed"}
        latest == logs[CHOOSE i \in S : \A k \in S : k <= i]
    IN S # {} => /\ GetMoments(j).result = latest.details.result
                 /\ GetMoments(j).provider = latest.details.provider
                 /\ SummaryInput(j) = latest.details.result

\* C2: while a required prior event is absent from a job's log, the stage
\* answers 404 (prerequisite missing), no request of that stage waits for its
\* collaborator, and no step appends an event of that stage for the job
C2_PrerequisiteMissing ==
  [][\A j \in JobIds :
       /\ ~Has(JobEvents(j), "audio_extraction_completed") =>
            /\ TranscribeCheck(j) = 404
            /\ ~Waiting("transcribe", j)'
            /\ ~Appends(j, {"transcription_started", "transcription_completed",
                            "transcription_failed"})
       /\ ~(/\ Has(JobEvents(j), "transcription_completed")
            /\ Has(JobEvents(j), "audio_extraction_completed")
            /\ Has(JobEvents(j), "processing_started")) =>
            /\ AnalyzeMomentsCheck(j) = 404
            /\ ~Waiting("analyze-moments", j)'
            /\ ~Appends(j, {"moment_analysis_started", "moment_analysis_completed",
                            "moment_analysis_failed"})
       /\ ~(/\ Has(JobEvents(j), "moment_analysis_completed")
            /\ Has(JobEvents(j), "processing_started")) =>
            /\ CreateSummaryCheck(j) = 404
            /\ QuickSummaryCheck(j) = 404
            /\ ~Waiting("create-summary", j)' /\ ~Waiting("quick-summary", j)'
            /\ ~Appends(j, {"video_summarization_started", "video_summarization_completed",
                            "video_summarization_failed", "quick_summary_completed"})
    ]_vars

\* C2 happens: extract-audio has failed for a job, so the job has events but
\* no audio_extraction_completed, and transcribe answers 404 for it
C2_Witness ==
  /\ resp.op = "extract-audio" /\ resp.status = 500
  /\ JobEvents(resp.jobId) # <<>>
  /\ ~Has(JobEvents(resp.jobId), "audio_extraction_completed")
  /\ TranscribeCheck(resp.jobId) = 404

\* C3: when a stage invocation whose prerequisites resolved sends its
\* response, the last event of the log is that invocation's terminal event:
\* <stage>_completed for a success, <stage>_failed with a message for a failure
C3_TerminalEventBeforeResponse ==
  (resp.op \in StageOps /\ resp.status \in {200, 500}) =>
    LET completed == CASE resp.op = "extract-audio" -> "audio_extraction_completed"
                       [] resp.op = "transcribe" -> "transcription_completed"
                       [] resp.op = "analyze-moments" -> "moment_analysis_completed"
                       [] resp.op = "create-summary" -> "video_summarization_completed"
                       [] resp.op = "quick-summary" -> "quick_summary_completed"
        failed == CASE resp.op = "extract-audio" -> "audio_extraction_failed"
                    [] resp.op = "transcribe" -> "transcription_failed"
                    [] resp.op = "analyze-moments" -> "moment_analysis_failed"
                    [] resp.op = "create-summary" -> "video_summarization_failed"
                    [] resp.op = "quick-summary" -> "quick_summary_failed"
    IN /\ LastEvent.jobId = resp.jobId
       /\ resp.status = 200 => LastEvent.activity = completed
       /\ resp.status = 500 => /\ LastEvent.activity = failed
                               /\ LastEvent.details.error # ""

\* C4: when the moment-detection service call throws (the analysis comes
\* from createFallbackAnalysis, provider "fallback"), analyze-moments answers
\* with a failure and its event is moment_analysis_failed
C4_CollaboratorFailureIsRecorded ==
  (resp.op = "analyze-moments" /\ resp.provider = "fallback") =>
    /\ resp.status = 500
    /\ LastEvent.activity = "moment_analysis_failed"

\* C5: in the log, every transcription event of a job is preceded by an
\* audio_extraction_completed event of the job, every moment_analysis event
\* by a transcription_completed event, and every video_summarization or
\* quick_summary_completed event by a moment_analysis_completed event
C5_StageOrder ==
  \A i \in 1..Len(AllEvents) :
    LET e == AllEvents[i]
        PrecededBy(act) == \E k \in 1..(i - 1) :
                             AllEvents[k].jobId = e.jobId /\ AllEvents[k].activity = act
    IN /\ e.activity \in {"transcription_started", "transcription_completed"}
            => PrecededBy("audio_extraction_completed")
       /\ e.activity \in {"moment_analysis_started", "moment_analysis_completed"}
            => PrecededBy("transcription_completed")
       /\ e.activity \in {"video_summarization_started", "video_summarization_completed",
                          "quick_summary_completed"}
            => PrecededBy("moment_analysis_completed")

\* C5 happens: a summarization has completed
C5_Witness ==
  /\ resp.op = "create-summary" /\ resp.status = 200
  /\ Has(AllEvents, "video_summarization_completed")

\* C6: when a convenience flow has succeeded, the events appended for its
\* job include the three intermediate completion events, and they resolve
\* the prerequisites of create-summary
C6_FlowLogsIntermediateCompletions ==
  (resp.op \in FlowOps /\ resp.status = 200) =>
    /\ Has(JobEvents(resp.jobId), "audio_extraction_completed")
    /\ Has(JobEvents(resp.jobId), "transcription_completed")
    /\ Has(JobEvents(resp.jobId), "moment_analysis_completed")
    /\ SummaryPrereq(JobEvents(resp.jobId))

\* C7: getJobLogs(jobId) is every event ever appended for jobId, in append
\* order, whatever the day it was appended on
C7_QueryReturnsEveryEvent ==
  \A j \in JobIds : GetLogs(j) = JobEvents(j)

\* C8: after cleanup(jobId), the query returns the job's previously written
\* events followed by the cleanup_completed event
C8_QueryAfterCleanup ==
  resp.op = "cleanup" =>
    /\ GetLogs(resp.jobId) = JobEvents(resp.jobId)
    /\ LastEvent.jobId = resp.jobId /\ LastEvent.activity = "cleanup_completed"

\* C9 as stated: once a job has a <stage>_failed event, no step appends a
\* <stage>_completed event for that job
C9_FailedIsTerminal ==
  [][\A j \in JobIds :
       /\ Has(JobEvents(j), "transcription_failed")
            => ~Appends(j, {"transcription_completed"})
       /\ Has(JobEvents(j), "video_summarization_failed")
            => ~Appends(j, {"video_summarization_completed"})
    ]_vars

\* C9 amended: a <stage>_failed event ends only the invocation that logged
\* it. A job that has one is accepted again by the stage as soon as the
\* stage's prerequisites resolve
C9_FailedDoesNotBlockRetry ==
  \A j \in JobIds :
    /\ (/\ Has(GetLogs(j), "transcription_failed")
        /\ TranscribePrereq(GetLogs(j))
        /\ Exists(files, TranscribeInput(j))) => TranscribeCheck(j) = 0
    /\ (/\ Has(GetLogs(j), "video_summarization_failed")
        /\ SummaryPrereq(GetLogs(j))
        /\ Exists(files, SummaryVideo(j))
        /\ SummaryInput(j) > 0) => CreateSummaryCheck(j) = 0

\* C9 happens: a transcription has completed for a job after a
\* transcription had failed for it
C9_Witness ==
  /\ resp.op = "transcribe" /\ resp.status = 200
  /\ \E i, k \in 1..Len(JobEvents(resp.jobId)) :
       /\ i < k
       /\ JobEvents(resp.jobId)[i].activity = "transcription_failed"
       /\ JobEvents(resp.jobId)[k].activity = "transcription_completed"

C11_PartialOutputRemoved ==
  [][(resp'.status = 500
        /\ resp'.op \in {"create-summary", "quick-summary", "process-and-summarize"}) =>
       /\ Exists(files', OutputPath(resp'.jobId)) => Exists(files, OutputPath(resp'.jobId))
       /\ ~Exists(files', ConcatPath(resp'.jobId))]_vars

\* a finished call of analyzeKeyMoments
Analyzed == call.fn = "analyzeKeyMoments" /\ call.done

\* the transcript that the finished call handed to analyzeKeyMoments
PassedTranscript ==
  IF call.via = "processed" THEN processTranscriptionForAnalysis(call.raw) ELSE call.raw

\* the Moment invariant for a video of duration d
IsMoment(m, d) == 0 <= m.startTime /\ m.startTime < m.endTime /\ m.endTime <= d

\* C12: when the answer of the moment-detection service cannot be interpreted
\* and the transcript has segments, analyzeKeyMoments called with the output
\* of processTranscriptionForAnalysis returns the heuristic fallback with a
\* non-empty moment list, every moment within 0 <= startTime < endTime <=
\* duration of the video
C12_FallbackForPipelineTranscript ==
  (Analyzed /\ call.via = "processed" /\ ~call.response.threw
     /\ ~call.response.parses /\ call.raw.segments # <<>>
     /\ call.raw.duration > 0) =>
    /\ call.result.provider = "liberal-fallback"
    /\ call.result.keyMoments # <<>>
    /\ \A i \in 1..Len(call.result.keyMoments) :
         IsMoment(call.result.keyMoments[i], call.raw.duration)

Filtered == call.fn = "filterMoments" /\ call.passes >= 1

\* option k of the call is set
IsSet(k) == k \in DOMAIN call.options

\* moment m meets every condition that the options of the call set
MeetsConditions(m) ==
  /\ IsSet("minImportance") => m.importance >= call.options["minImportance"]
  /\ (IsSet("includeCategories") /\ call.options["includeCategories"] # {}) =>
       m.category \in call.options["includeCategories"]
  /\ IsSet("maxMomentDuration") =>
       m.endTime - m.startTime <= call.options["maxMomentDuration"]

\* the elements of a sequence
Range(seq) == {seq[i] : i \in 1..Len(seq)}

\* C14: every moment that filterMoments returns meets minImportance,
\* includeCategories (when not empty) and maxMomentDuration whenever they are
\* set, and when maxMoments does not truncate, the moments returned are exactly
\* the moments of the input that meet them (none twice; an empty list when
\* there is none)
C14_OutputMeetsSetConditions ==
  Filtered =>
    LET meeting == SelectSeq(call.moments, MeetsConditions)
    IN /\ \A i \in 1..Len(call.out) : MeetsConditions(call.out[i])
       /\ ~(IsSet("maxMoments") /\ Len(meeting) > call.options["maxMoments"]) =>
            /\ Range(call.out) = Range(meeting)
            /\ Len(call.out) = Len(meeting)

\* C15: when maxMoments is set, to any non-negative integer, filterMoments
\* returns at most maxMoments moments
C15_AtMostMaxMoments ==
  (Filtered /\ IsSet("maxMoments")) => Len(call.out) <= call.options["maxMoments"]

\* C16: when maxMoments is set and more moments than maxMoments remain after
\* the importance, category and duration filters, filterMoments keeps exactly
\* maxMoments of them, every moment kept at least as important as every one
\* dropped, and of two equally important moments the earlier one of the input
\* is kept first
C16_KeepsTheMostImportant ==
  LET remaining == SelectSeq(call.moments, MeetsConditions)
  IN (Filtered /\ IsSet("maxMoments") /\ Len(remaining) > call.options["maxMoments"]) =>
       /\ Len(call.out) = call.options["maxMoments"]
       /\ Range(call.out) \subseteq Range(remaining)
       /\ \A k \in Range(call.out) : \A d \in Range(remaining) \ Range(call.out) :
            \/ k.importance > d.importance
            \/ k.importance = d.importance /\ k.title < d.title

\* C17: whether or not maxMoments truncated, the moments that filterMoments
\* returns are in the order of sortMomentsBy: importance never rising for
\* 'importance', endTime - startTime never rising for 'duration', startTime
\* never falling for 'chronological', an unknown value or none
C17_FinalOrder ==
  Filtered =>
    \A i \in 1..(Len(call.out) - 1) :
      LET a == call.out[i]
          b == call.out[i + 1]
          sortBy == IF IsSet("sortMomentsBy") THEN call.options["sortMomentsBy"] ELSE "none"
      IN CASE sortBy = "importance" -> a.importance >= b.importance
           [] sortBy = "duration" -> a.endTime - a.startTime >= b.endTime - b.startTime
           [] OTHER -> a.startTime <= b.startTime

\* maxMoments truncated three moments to two, which are returned by start
\* time against their order of importance
C17_Witness ==
  /\ Filtered /\ ~IsSet("sortMomentsBy")
  /\ IsSet("maxMoments") /\ call.options["maxMoments"] = 2
  /\ Len(call.moments) = 3 /\ Len(call.out) = 2
  /\ call.out[1].importance < call.out[2].importance
  /\ call.out[1].startTime < call.out[2].startTime

\* C18: filterMoments applied to its own result with the same options
\* returns the identical sequence
C18_Idempotent ==
  (call.fn = "filterMoments" /\ call.passes = 2) => call.again = call.out

\* the second pass ran on a result that maxMoments had truncated, with two
\* moments of equal importance and equal start that are not in input order
C18_Witness ==
  /\ call.fn = "filterMoments" /\ call.passes = 2
  /\ IsSet("maxMoments") /\ Len(call.moments) = 3 /\ Len(call.out) = 2
  /\ call.out[1].importance = call.out[2].importance
  /\ call.out[1].startTime = call.out[2].startTime
  /\ IsSet("sortMomentsBy") /\ call.options["sortMomentsBy"] = "duration"
  /\ call.out[1].title > call.out[2].title
  /\ call.again = call.out

\* the call of the scenario: the eight moments, minImportance 5, maxMoments 3,
\* sortMomentsBy 'importance'
EightMomentsCall ==
  /\ Filtered
  /\ call.moments = EightMoments
  /\ DOMAIN call.options = {"minImportance", "maxMoments", "sortMomentsBy"}
  /\ call.options["minImportance"] = 5
  /\ call.options["maxMoments"] = 3
  /\ call.options["sortMomentsBy"] = "importance"

\* C19: for eight moments of importance 9, 3, 7, 8, 2, 6, 5, 4 and the options
\* minImportance 5, maxMoments 3, sortMomentsBy 'importance', filterMoments
\* returns exactly the moments of importance 9, 8, 7 in that order
C19_EightMomentsScenario ==
  EightMomentsCall =>
    call.out = <<EightMoments[1], EightMoments[4], EightMoments[3]>>

C19_Witness ==
  /\ EightMomentsCall
  /\ [i \in 1..Len(call.out) |-> call.out[i].importance] = <<9, 8, 7>>


\* C20: estimatedDuration is the sum of the segment durations, divided by
\* speedFactor when speed adjustment is enabled, plus (segmentCount - 1) times
\* transitionDuration when transitions are enabled, plus introDuration when
\* the intro is enabled, for the durations and the factor that the caller
\* passes (the defaults 0.5 s, 2 s and 1.0 when none is passed); so N segments
\* of d each with transitions of t >= 0 and neither intro nor speed change
\* give N*d + (N-1)*t
C20_EstimatedDuration ==
  LET o == call.options
      Passed(k, default) == IF k \in DOMAIN o THEN o[k] ELSE default
      n == Len(call.segments)
      sum == SumDurations(call.segments)
      factor == Passed("speedFactor", 10)
      adjusted == IF Passed("enableSpeedAdjustment", FALSE)
                  THEN (sum * 10) \div factor ELSE sum
      transition == IF Passed("enableTransitions", TRUE)
                    THEN (n - 1) * Passed("transitionDuration", 5) ELSE 0
      intro == IF Passed("enableIntro", FALSE) THEN Passed("introDuration", 20) ELSE 0
  IN (call.fn = "generateCompositionPlan" /\ call.done /\ n >= 1 /\ factor # 0) =>
       call.plan.estimatedDuration = adjusted + transition + intro


\* a finished call of getCompositionStats
HasStats == call.fn = "getCompositionStats" /\ call.done

\* C21 as stated: compressionRatio is exactly (originalDuration -
\* finalDuration) / originalDuration * 100, originalDuration the sum of the
\* segment durations, negative values included
C21_ExactRatio ==
  HasStats =>
    LET originalDuration == SumDurations(call.segments)
    IN call.stats.compressionRatio * originalDuration =
         (originalDuration - call.finalMetadata.duration) * 10000

\* C21: compressionRatio is (originalDuration - finalDuration) /
\* originalDuration * 100 rounded to two decimals (halves upwards),
\* originalDuration the sum of the segment durations, and is not clamped:
\* 100 s and 40 s give 60, 100 s and 120 s give -20
C21_RoundedRatioNotClamped ==
  HasStats =>
    LET originalDuration == SumDurations(call.segments)
        finalDuration == call.finalMetadata.duration
        error == call.stats.compressionRatio * originalDuration
                   - (originalDuration - finalDuration) * 10000
    IN /\ 0 - originalDuration < 2 * error /\ 2 * error <= originalDuration
       /\ (originalDuration = Seconds(100) /\ finalDuration = Seconds(40)) =>
            call.stats.compressionRatio = 6000
       /\ (originalDuration = Seconds(100) /\ finalDuration = Seconds(120)) =>
            call.stats.compressionRatio = 0 - 2000

\* two segments of 50 s composed into 120 s: the ratio is -20
C21_Witness ==
  /\ HasStats
  /\ SumDurations(call.segments) = Seconds(100)
  /\ call.finalMetadata.duration = Seconds(120)
  /\ call.stats.compressionRatio = 0 - 2000


\* run r of composeSegments has written its concat list
Composed(r) == call.fn = "composeSegments" /\ call.runs[r].stage = "composed"

\* C22: the segments are concatenated in the order of the sort policy:
\* 'order', the default, by ascending extraction index, 'importance' by
\* descending importance, 'duration' by descending duration, 'chronological'
\* by ascending original start time; under the default policy they are
\* concatenated in the order in which filterMoments returned the moments
C22_ConcatenationOrder ==
  \A r \in Runs : Composed(r) =>
    LET concat == call.runs[r].concat
        policy == IF "sortBy" \in DOMAIN call.composition
                  THEN call.composition["sortBy"] ELSE "order"
    IN /\ Len(concat) = Len(call.runs[r].segments)
       /\ Range(concat) = Range(call.runs[r].segments)
       /\ \A i \in 1..(Len(concat) - 1) :
            CASE policy = "order" -> concat[i].index < concat[i + 1].index
              [] policy = "importance" -> concat[i].importance >= concat[i + 1].importance
              [] policy = "duration" -> concat[i].duration >= concat[i + 1].duration
              [] policy = "chronological" ->
                   concat[i].originalStartTime <= concat[i + 1].originalStartTime
              [] OTHER -> TRUE
       /\ policy = "order" =>
            [i \in 1..Len(concat) |-> concat[i].title] =
              [i \in 1..Len(call.runs[r].filtered) |-> call.runs[r].filtered[i].title]

\* under the default policy three moments that filterMoments returned by
\* importance, against their input order, were concatenated in that order
C22_Witness ==
  /\ Composed(1) /\ ~("sortBy" \in DOMAIN call.composition)
  /\ Len(call.runs[1].concat) = 3
  /\ call.runs[1].concat[1].title = 3
  /\ call.runs[1].concat[1].importance > call.runs[1].concat[2].importance

Cleaned == call.fn = "cleanupJob" /\ call.calls >= 1

\* the files of a category that a call of cleanupJob removed
Removed(top) ==
  {p \in DOMAIN call.before \ DOMAIN files :
     p[1] = top /\ p[3] = call.jobId /\ p[2] # "dir"}

\* the deleted-file count that the result reports for a category is n
Reports(category, n) ==
  /\ "deletedFiles" \in DOMAIN call.result.results[category]
  /\ call.result.results[category]["deletedFiles"] = n

\* C23: cleanupJob called twice in a row for the same job succeeds the second
\* time and reports zero deleted files for segments, for thumbnails and for
\* output, and so does a call for a job that never had artifacts
C23_SecondCleanupReportsZero ==
  (Cleaned /\ \/ call.calls >= 2 /\ call.previous = call.jobId
              \/ \A p \in DOMAIN call.before : p[3] # call.jobId) =>
    /\ call.result.success
    /\ \A category \in {"segments", "thumbnails", "output"} : Reports(category, 0)

\* C24: after cleanupJob has succeeded, segments/<jobId>/ and
\* thumbnails/<jobId>/ with their files, the summary and the preview do not
\* exist, and the result reports for segments, thumbnails and output the
\* number of files that the call removed there
C24_ArtifactsGoneAndCounted ==
  (Cleaned /\ call.result.success) =>
    /\ \A p \in DOMAIN files :
         ~(p[1] \in {"segments", "thumbnails"} /\ p[3] = call.jobId)
    /\ ~Exists(files, OutputPath(call.jobId))
    /\ ~Exists(files, PreviewPath(call.jobId))
    /\ \A category \in {"segments", "thumbnails", "output"} :
         Reports(category, Cardinality(Removed(category)))


\* the activities that the JobLog schema lists
ActivityKind ==
  {"processing_started", "metadata_extracted",
   "audio_extraction_completed", "audio_extraction_failed",
   "transcription_started", "transcription_completed", "transcription_failed",
   "moment_analysis_started", "moment_analysis_completed", "moment_analysis_failed",
   "video_summarization_started", "video_summarization_completed",
   "video_summarization_failed", "quick_summary_completed",
   "full_pipeline_completed", "full_pipeline_failed", "cleanup_completed"}

\* C25: every event that an endpoint has appended to the log has one of the
\* listed activities
C25_ActivitiesAreListed ==
  \A d \in Days : \A i \in 1..Len(logFiles[d]) : logFiles[d][i].activity \in ActivityKind


\* C27: two invocations of process-full, process-and-summarize or
\* extract-audio that are in progress at the same time never have the same
\* job identifier
C27_NoSharedJobId ==
  \A s, t \in Slots :
    (/\ s # t
     /\ reqs[s].op \in FlowOps \cup {"extract-audio"}
     /\ reqs[t].op \in FlowOps \cup {"extract-audio"}) =>
      reqs[s].jobId # reqs[t].jobId


\* C28: a transcription in progress for a job does not keep a second one for
\* the same job from starting (whenever the audio of the job resolves and a
\* request can start, transcribe can start), and every invocation that
\* succeeds appends its transcription_completed event when it finishes, so
\* two concurrent invocations leave two completion events in the order in
\* which they finished
C28_NoMutualExclusion ==
  [][/\ \A j \in JobIds :
          (/\ Waiting("transcribe", j) /\ CanStart
           /\ TranscribePrereq(getJobLogs(logFiles, now, j))
           /\ Exists(files, TranscribeInput(j))) =>
            ENABLED TranscribeStart(j)
     /\ \A s \in Slots :
          (reqs[s].op = "transcribe" /\ reqs'[s] = Idle /\ resp'.status = 200) =>
            /\ NewEvents # <<>>
            /\ NewEvents[Len(NewEvents)].jobId = reqs[s].jobId
            /\ NewEvents[Len(NewEvents)].activity = "transcription_completed"
            /\ Len(NewEvents) = 1]_vars

\* two invocations of transcribe for job 0 overlapped and both succeeded: the
\* log of the job holds started, started, completed, completed
C28_Witness ==
  LET events == SelectSeq(JobEvents(0),
                          LAMBDA e : e.activity \in {"transcription_started",
                                                     "transcription_completed",
                                                     "transcription_failed"})
  IN /\ Len(events) = 4
     /\ [i \in 1..4 |-> events[i].activity] =
          <<"transcription_started", "transcription_started",
            "transcription_completed", "transcription_completed">>


\* file p is an artifact of job jobId: a clip, a thumbnail, the summary, the
\* preview or the concat list of the job, a file one of its log events names
\* (its processing video, its audio) or a file a waiting request of it holds
BelongsTo(p, jobId) ==
  \/ p[1] \in {"segments", "thumbnails", "output"} /\ p[3] = jobId
  \/ p = ConcatPath(jobId)
  \/ \E i \in 1..Len(JobEvents(jobId)) : JobEvents(jobId)[i].details.file = p
  \/ \E s \in Slots : reqs[s].op # "idle" /\ reqs[s].jobId = jobId /\ p \in {reqs[s].file, reqs[s].file2}

\* C29: the cleanup endpoint removes only artifacts of the job it is called
\* for: every file of another job that existed before the call still exists
\* after it
C29_CleanupLeavesOtherJobs ==
  [][(resp'.op = "cleanup" /\ resp'.status = 200) =>
       \A p \in DOMAIN files \ DOMAIN files' :
         \A B \in JobIds \ {resp'.jobId} :
           BelongsTo(p, B) => BelongsTo(p, resp'.jobId)]_vars


Summarizing == call.fn = "createVideoSummary"
StepRank(name) ==
  CASE name = "validate" -> 1 [] name = "filter" -> 2 [] name = "segment" -> 3
    [] name = "extract" -> 4 [] name = "thumbnails" -> 5 [] name = "compose" -> 6
    [] name = "preview" -> 7
Started(name) == \E i \in 1..Len(call.steps) : call.steps[i].step = name
Extractions == SelectSeq(call.steps, LAMBDA e : e.step = "extract")

\* C30: the steps of createVideoSummary start in the order validation,
\* filtering, extraction of the filtered moments one at a time and in their
\* order, thumbnails when asked for, composition, preview when asked for;
\* composition starts only when every filtered moment has been extracted, the
\* preview only when the composition has succeeded; a call that has failed
\* has started nothing after the step that failed, and its error begins with
\* 'Summarization failed'; a call that has returned has run every step
C30_StepsInOrder ==
  Summarizing =>
    /\ \A i, j \in 1..Len(call.steps) :
         i < j => \/ StepRank(call.steps[i].step) < StepRank(call.steps[j].step)
                  \/ call.steps[i].step = "extract" /\ call.steps[j].step = "extract"
    /\ Len(Extractions) <= Len(call.filtered)
    /\ \A k \in 1..Len(Extractions) : Extractions[k].moment = call.filtered[k].title
    /\ Len(call.segments) \in {Len(Extractions), Len(Extractions) - 1}
    /\ \A k \in 1..Len(call.segments) : call.segments[k].title = call.filtered[k].title
    /\ Started("filter") => validateInputs(call.videoExists, call.moments) = <<>>
    /\ Started("extract") => call.filtered = filterMoments(call.moments, call.options)
    /\ Started("thumbnails") =>
         Flag(call.options, "createThumbnails") /\ Len(call.segments) = Len(call.filtered)
    /\ Started("compose") =>
         /\ Len(call.segments) = Len(call.filtered)
         /\ Flag(call.options, "createThumbnails") => Started("thumbnails")
    /\ Started("preview") => Flag(call.options, "createPreview") /\ call.composed
    /\ call.pc = "failed" =>
         /\ call.error[1] = "Summarization failed"
         /\ call.steps[Len(call.steps)].step =
              CASE Len(call.error) = 2 /\ ~call.composed -> "validate"
                [] Len(call.error) = 2 /\ call.composed -> "preview"
                [] call.error[2] = "Composition failed" -> "compose"
                [] Len(call.steps) = 3 -> "segment"
                [] OTHER -> "extract"
    /\ call.pc = "done" =>
         /\ call.composed /\ Started("compose")
         /\ Flag(call.options, "createPreview") => Started("preview")

\* a call with two filtered moments, thumbnails and a preview has returned
C30_Witness ==
  /\ Summarizing /\ call.pc = "done"
  /\ Len(call.filtered) = 2
  /\ Len(call.steps) = 8


\* job jobId was started by POST /extract-audio and its transcription has
\* completed: today's log holds both completion events, and nothing has been
\* cleaned up
DiscreteJobTranscribed(jobId) ==
  LET logs == getJobLogs(logFiles, now, jobId)
  IN /\ logs # <<>>
     /\ logs[1].activity = "audio_extraction_started"
     /\ find(logs, {"audio_extraction_completed"}) # NoEvent
     /\ find(logs, {"transcription_completed"}) # NoEvent
     /\ find(logs, {"cleanup_completed"}) = NoEvent
     /\ Exists(files, logs[1].details.file)
     /\ Exists(files, TranscribeInput(jobId))

\* C31: a job driven by the discrete stage calls goes on to the end of the
\* pipeline: once extract-audio and transcribe have completed for the jobId
\* that extract-audio returned, analyze-moments reports no missing
\* prerequisite for it
C31_DiscreteStagesReachTheEnd ==
  \A j \in JobIds : DiscreteJobTranscribed(j) => AnalyzeMomentsCheck(j) = 0

\* the moments of the call all have 0 <= startTime < endTime
WellTimed(moments) ==
  \A i \in DOMAIN moments :
    0 <= moments[i].startTime /\ moments[i].startTime < moments[i].endTime

\* C32: validateInputs accepts every non-empty list of moments with
\* 0 <= startTime < endTime for a video that exists, a moment that starts at
\* 0 included: createVideoSummary goes on to filter such a list
C32_StartAtZeroIsValid ==
  (/\ Summarizing /\ call.pc # "start"
   /\ call.videoExists /\ call.moments # <<>> /\ WellTimed(call.moments)) =>
    Started("filter")

StartOf(completed) ==
  CASE completed = "transcription_completed" -> "transcription_started"
    [] completed = "moment_analysis_completed" -> "moment_analysis_started"
    [] completed = "video_summarization_completed" -> "video_summarization_started"

\* C33: once cleanup_completed is in the log of a job, later than every
\* earlier event of the job, no invocation of transcribe, analyze-moments or
\* create-summary that starts afterwards completes for that job: the log
\* holds no such cleanup_completed followed by a stage's started event and
\* then that stage's completed event
C33_CleanedIsAbsorbing ==
  \A j \in JobIds :
    LET events == JobEvents(j)
    IN \A a, b, c \in 1..Len(events) :
         (/\ 1 < a /\ a < b /\ b < c
          /\ events[a].activity = "cleanup_completed"
          /\ \A k \in 1..(a - 1) : events[k].timestamp < events[a].timestamp
          /\ events[c].activity \in {"transcription_completed", "moment_analysis_completed",
                                     "video_summarization_completed"}) =>
           events[b].activity # StartOf(events[c].activity)

Count(events, acts) == Len(SelectSeq(events, LAMBDA e : e.activity \in acts))
Summarizing34(jobId) ==
  Cardinality({s \in Slots : /\ reqs[s].op = "create-summary" /\ reqs[s].jobId = jobId
                             /\ reqs[s].pc \in {"summarize", "compose"}})

\* C34: every create-summary invocation of a job terminates with exactly one
\* video_summarization_completed or video_summarization_failed event, also
\* when two of them run at once: the invocations that have started are those
\* that have appended their event and those still at work
C34_BothTerminate ==
  \A j \in JobIds :
    Count(JobEvents(j), {"video_summarization_started"}) =
      Count(JobEvents(j), {"video_summarization_completed", "video_summarization_failed"})
        + Summarizing34(j)

\* C35: the correction of parseGeminiResponse keeps the order of a moment's
\* bounds: every reported moment with startTime < endTime has
\* startTime < endTime after both bounds have been corrected
C35_CorrectionKeepsOrder ==
  (Analyzed /\ call.result.provider = "gemini-1.5-pro") =>
    \A i \in 1..Len(call.response.analysis.keyMoments) :
      LET moment == call.response.analysis.keyMoments[i]
      IN moment.startTime < moment.endTime =>
           FixTimestamp(moment.startTime) < FixTimestamp(moment.endTime)

\* C36: in the summary that createVideoSummary returns, originalMoments is the
\* number of moments the caller passed, usedMoments the number of extracted
\* segments, and momentsFiltered their difference
C36_SummaryCounts ==
  (Summarizing /\ call.pc = "done") =>
    /\ call.summary.originalMoments = Len(call.moments)
    /\ call.summary.usedMoments = Len(call.segments)
    /\ call.summary.momentsFiltered = Len(call.moments) - Len(call.segments)

QuickCall == Summarizing /\ call.quick
Eligible == SelectSeq(call.moments, LAMBDA m : m.importance >= 6)
Titles(moments) == {moments[i].title : i \in 1..Len(moments)}

\* C37: createQuickSummary summarizes at most 5 moments, each of importance
\* 6 or more: the most important of the input moments with importance 6 or
\* more, by descending importance; its plan has neither transitions nor an
\* intro, and it makes no thumbnails and no preview; when no input moment has
\* importance 6 or more the call fails and composes nothing
C37_QuickSummary ==
  QuickCall =>
    /\ Started("extract") =>
         /\ Len(call.filtered) = Min(5, Len(Eligible))
         /\ Titles(call.filtered) \subseteq Titles(Eligible)
         /\ \A i \in 1..Len(call.filtered) : call.filtered[i].importance >= 6
         /\ \A i \in 1..(Len(call.filtered) - 1) :
              call.filtered[i].importance >= call.filtered[i + 1].importance
         /\ \A i \in 1..Len(Eligible) :
              Eligible[i].title \notin Titles(call.filtered) =>
                \A k \in 1..Len(call.filtered) :
                  Eligible[i].importance <= call.filtered[k].importance
    /\ Len(call.segments) <= 5
    /\ \A i \in 1..Len(call.segments) : call.segments[i].importance >= 6
    /\ ~Started("thumbnails") /\ ~Started("preview")
    /\ Started("compose") =>
         /\ ~call.plan.transitions.enabled /\ ~call.plan.intro.enabled
         /\ call.plan.totalSegments = Len(call.filtered)
    /\ (call.pc # "start" /\ Eligible = <<>>) =>
         call.pc = "failed" /\ ~Started("extract") /\ ~Started("compose")

\* a quick summary of eight moments, six of them of importance 6 or more,
\* has returned with five
C37_Witness ==
  /\ QuickCall /\ call.pc = "done"
  /\ Len(call.moments) = 8 /\ Len(Eligible) = 6
  /\ Len(call.segments) = 5

Validated == call.fn = "validateVideo" /\ call.pc # "validate"
Processable(file) ==
  /\ file.exists /\ file.size <= 500 /\ file.readable /\ file.video
  /\ Seconds(1) <= file.duration /\ file.duration <= Seconds(1800)

FileCleaned == call.fn = "cleanupFile" /\ call.calls >= 1

====
